---- MODULE Spec2Model ----
(***************************************************************************)
(* Hybrid product search and batch vectorization of vibe-commerce.         *)
(*                                                                         *)
(* Text is a sequence of one-character strings.  A JavaScript number is a  *)
(* record [nan, c] where c is the value in hundredths.  A cosine           *)
(* similarity is kept exactly as [err, d, n], standing for d / sqrt(n).    *)
(***************************************************************************)
EXTENDS Integers, Sequences, FiniteSets, TLC

(***************************************************************************)
(* Characters and strings                                                  *)
(***************************************************************************)
UpperChars ==
  <<"A","B","C","D","E","F","G","H","I","J","K","L","M",
    "N","O","P","Q","R","S","T","U","V","W","X","Y","Z">>

LowerChars ==
  <<"a","b","c","d","e","f","g","h","i","j","k","l","m",
    "n","o","p","q","r","s","t","u","v","w","x","y","z">>

DigitChars ==
  <<"0","1","2","3","4","5","6","7","8","9">>

Range(s) ==
  { s[i] : i \in DOMAIN s }

\* the value a query parameter or an optional field has when it is absent
Undefined ==
  << "undefined" >>

\* the lower-case letter of each upper-case letter
LowerOf ==
  [c \in Range(UpperChars) |-> LowerChars[CHOOSE i \in DOMAIN UpperChars : UpperChars[i] = c]]

\* String.prototype.toLowerCase on one character
LowerChar(c) ==
  IF c \in DOMAIN LowerOf THEN LowerOf[c] ELSE c

\* String.prototype.toLowerCase
toLowerCase(s) ==
  [i \in DOMAIN s |-> LowerChar(s[i])]

\* the regular expression class \s
IsSpace(c) ==
  c \in {" ", "\t", "\n", "\r"}

\* the regular expression class \w
WordChars ==
  Range(UpperChars) \cup Range(LowerChars) \cup Range(DigitChars) \cup {"_"}

IsWordChar(c) ==
  c \in WordChars

\* String.prototype.includes
includes(text, q) ==
  \E i \in 1..(Len(text) - Len(q) + 1) : SubSeq(text, i, i + Len(q) - 1) = q

\* pat occurs in s at position i, ignoring case (the i flag)
MatchesAtCI(s, i, pat) ==
  /\ i + Len(pat) - 1 <= Len(s)
  /\ toLowerCase(SubSeq(s, i, i + Len(pat) - 1)) = toLowerCase(pat)

\* JavaScript truthiness of an optional string
Truthy(s) ==
  s # Undefined /\ s # <<>>

RECURSIVE TrimStart(_)
TrimStart(s) ==
  IF s # <<>> /\ IsSpace(Head(s)) THEN TrimStart(Tail(s)) ELSE s

RECURSIVE TrimEnd(_)
TrimEnd(s) ==
  IF s # <<>> /\ IsSpace(s[Len(s)]) THEN TrimEnd(SubSeq(s, 1, Len(s) - 1)) ELSE s

\* String.prototype.trim
trim(s) ==
  TrimEnd(TrimStart(s))

\* replace(/\s+/g, ' ')
RECURSIVE CollapseWhitespace(_)
CollapseWhitespace(s) ==
  IF s = <<>> THEN <<>>
  ELSE IF IsSpace(Head(s))
       THEN <<" ">> \o CollapseWhitespace(TrimStart(s))
       ELSE <<Head(s)>> \o CollapseWhitespace(Tail(s))

SqlKeywords ==
  { <<"S","E","L","E","C","T">>, <<"I","N","S","E","R","T">>,
    <<"U","P","D","A","T","E">>, <<"D","E","L","E","T","E">>,
    <<"D","R","O","P">>, <<"C","R","E","A","T","E">>,
    <<"A","L","T","E","R">> }

\* a keyword of /\b(SELECT|...)\b/gi matches s at position i
KeywordAt(s, i, k) ==
  /\ MatchesAtCI(s, i, k)
  /\ (i = 1 \/ ~IsWordChar(s[i - 1]))
  /\ (i + Len(k) > Len(s) \/ ~IsWordChar(s[i + Len(k)]))

\* replace(/(\b(SELECT|INSERT|UPDATE|DELETE|DROP|CREATE|ALTER)\b)/gi, '')
RECURSIVE RemoveKeywordsFrom(_, _)
RemoveKeywordsFrom(s, i) ==
  IF i > Len(s) THEN <<>>
  ELSE IF \E k \in SqlKeywords : KeywordAt(s, i, k)
       THEN LET k == CHOOSE kk \in SqlKeywords : KeywordAt(s, i, kk)
            IN RemoveKeywordsFrom(s, i + Len(k))
       ELSE <<s[i]>> \o RemoveKeywordsFrom(s, i + 1)

ScriptOpen ==
  <<"<","s","c","r","i","p","t">>

ScriptClose ==
  <<"<","/","s","c","r","i","p","t",">">>

\* "<script\b" matches s at position i
ScriptOpenAt(s, i) ==
  /\ MatchesAtCI(s, i, ScriptOpen)
  /\ (i + Len(ScriptOpen) > Len(s) \/ ~IsWordChar(s[i + Len(ScriptOpen)]))

\* the positions after i + 6 where "</script>" starts
ScriptClosesAfter(s, i) ==
  { j \in (i + Len(ScriptOpen))..Len(s) : MatchesAtCI(s, j, ScriptClose) }

Min(S) ==
  CHOOSE x \in S : \A y \in S : x <= y

\* replace(/<script\b[^<]*(?:(?!<\/script>)<[^<]*)*<\/script>/gi, ''):
\* a match runs from "<script" to the first "</script>" after it
RECURSIVE RemoveScriptsFrom(_, _)
RemoveScriptsFrom(s, i) ==
  IF i > Len(s) THEN <<>>
  ELSE IF ScriptOpenAt(s, i) /\ ScriptClosesAfter(s, i) # {}
       THEN RemoveScriptsFrom(s, Min(ScriptClosesAfter(s, i)) + Len(ScriptClose))
       ELSE <<s[i]>> \o RemoveScriptsFrom(s, i + 1)

sanitizePrompt(text) ==
  LET collapsed == CollapseWhitespace(trim(text))
      noSql == RemoveKeywordsFrom(collapsed, 1)
  IN RemoveScriptsFrom(noSql, 1)

(***************************************************************************)
(* Numbers                                                                 *)
(***************************************************************************)
NaN ==
  [nan |-> TRUE, c |-> 0]

\* the number x / 100
Num(x) ==
  [nan |-> FALSE, c |-> x]

DigitValue(ch) ==
  (CHOOSE i \in DOMAIN DigitChars : DigitChars[i] = ch) - 1

Digits ==
  Range(DigitChars)

IsDigit(ch) ==
  ch \in Digits

\* the longest prefix of s made of decimal digits
RECURSIVE DigitPrefix(_)
DigitPrefix(s) ==
  IF s # <<>> /\ IsDigit(Head(s)) THEN <<Head(s)>> \o DigitPrefix(Tail(s)) ELSE <<>>

RECURSIVE DigitsValue(_)
DigitsValue(ds) ==
  IF ds = <<>> THEN 0
  ELSE 10 * DigitsValue(SubSeq(ds, 1, Len(ds) - 1)) + DigitValue(ds[Len(ds)])

HexChars ==
  <<"0","1","2","3","4","5","6","7","8","9","a","b","c","d","e","f">>

IsHexDigit(ch) ==
  LowerChar(ch) \in Range(HexChars)

HexValue(ch) ==
  (CHOOSE i \in DOMAIN HexChars : HexChars[i] = LowerChar(ch)) - 1

RECURSIVE HexPrefix(_)
HexPrefix(s) ==
  IF s # <<>> /\ IsHexDigit(Head(s)) THEN <<Head(s)>> \o HexPrefix(Tail(s)) ELSE <<>>

RECURSIVE HexDigitsValue(_)
HexDigitsValue(ds) ==
  IF ds = <<>> THEN 0
  ELSE 16 * HexDigitsValue(SubSeq(ds, 1, Len(ds) - 1)) + HexValue(ds[Len(ds)])

\* the global parseInt(string) with no radix argument
parseInt(str) ==
  LET s == TrimStart(str)
      neg == s # <<>> /\ Head(s) = "-"
      signed == s # <<>> /\ Head(s) \in {"-", "+"}
      body == IF signed THEN Tail(s) ELSE s
      hex == Len(body) >= 2 /\ body[1] = "0" /\ body[2] \in {"x", "X"}
      digits == IF hex THEN HexPrefix(SubSeq(body, 3, Len(body))) ELSE DigitPrefix(body)
      value == IF hex THEN HexDigitsValue(digits) ELSE DigitsValue(digits)
  IN IF digits = <<>> THEN NaN
     ELSE Num(100 * (IF neg THEN 0 - value ELSE value))

\* the global parseFloat(string) on a decimal literal without exponent;
\* fraction digits after the second are dropped by the hundredths unit
parseFloat(str) ==
  LET s == TrimStart(str)
      neg == s # <<>> /\ Head(s) = "-"
      signed == s # <<>> /\ Head(s) \in {"-", "+"}
      body == IF signed THEN Tail(s) ELSE s
      ints == DigitPrefix(body)
      rest == SubSeq(body, Len(ints) + 1, Len(body))
      fracs == IF rest # <<>> /\ Head(rest) = "." THEN DigitPrefix(Tail(rest)) ELSE <<>>
      f1 == IF Len(fracs) >= 1 THEN DigitValue(fracs[1]) ELSE 0
      f2 == IF Len(fracs) >= 2 THEN DigitValue(fracs[2]) ELSE 0
      value == 100 * DigitsValue(ints) + 10 * f1 + f2
  IN IF ints = <<>> /\ fracs = <<>> THEN NaN
     ELSE Num(IF neg THEN 0 - value ELSE value)

(***************************************************************************)
(* Vector math (services/vectorize)                                        *)
(***************************************************************************)
RECURSIVE Dot(_, _)
Dot(a, b) ==
  IF a = <<>> THEN 0 ELSE Head(a) * Head(b) + Dot(Tail(a), Tail(b))

\* the similarity d / sqrt(n)
Sim(dd, nn) ==
  [err |-> FALSE, d |-> dd, n |-> nn]

\* the Error('Vectors must have the same length') thrown by the vector math
DimensionMismatch ==
  [err |-> TRUE, d |-> 0, n |-> 1]

cosineSimilarity(vecA, vecB) ==
  IF Len(vecA) # Len(vecB) THEN DimensionMismatch
  ELSE LET dotProduct == Dot(vecA, vecB)
           normA2 == Dot(vecA, vecA)
           normB2 == Dot(vecB, vecB)
       IN IF normA2 = 0 \/ normB2 = 0 THEN Sim(0, 1)
          ELSE Sim(dotProduct, normA2 * normB2)

\* sign(x) * x^2 / n orders similarities as x / sqrt(n) does
SignedSquare(x) ==
  IF x < 0 THEN 0 - x * x ELSE x * x

\* s1 < s2 as real numbers
SimLess(s1, s2) ==
  SignedSquare(s1.d) * s2.n < SignedSquare(s2.d) * s1.n

\* s >= m / 100 as real numbers
SimAtLeast(s, m) ==
  ~SimLess(s, Sim(m, 10000))

\* Array.prototype.slice(start, end)
slice(s, start, end) ==
  LET from == IF start < 0 THEN (IF Len(s) + start < 0 THEN 0 ELSE Len(s) + start)
              ELSE (IF start > Len(s) THEN Len(s) ELSE start)
      to == IF end < 0 THEN (IF Len(s) + end < 0 THEN 0 ELSE Len(s) + end)
            ELSE (IF end > Len(s) THEN Len(s) ELSE end)
  IN SubSeq(s, from + 1, to)

\* one step of the stable sort by (a, b) => b.similarity - a.similarity:
\* x goes after every element that is not smaller than it
RECURSIVE InsertDescending(_, _)
InsertDescending(x, sorted) ==
  IF sorted = <<>> THEN <<x>>
  ELSE IF SimLess(Head(sorted).similarity, x.similarity)
       THEN <<x>> \o sorted
       ELSE <<Head(sorted)>> \o InsertDescending(x, Tail(sorted))

RECURSIVE SortDescending(_)
SortDescending(items) ==
  IF items = <<>> THEN <<>>
  ELSE InsertDescending(items[Len(items)], SortDescending(SubSeq(items, 1, Len(items) - 1)))

\* findTopKSimilar without the sort
findTopKSimilar_Unsorted(queryVector, vectors, k) ==
  LET similarities == [i \in DOMAIN vectors |->
                         [id |-> vectors[i].id,
                          similarity |-> cosineSimilarity(queryVector, vectors[i].vector),
                          data |-> vectors[i].data]]
  IN IF \E i \in DOMAIN similarities : similarities[i].similarity.err
     THEN [err |-> TRUE, items |-> <<>>]
     ELSE [err |-> FALSE, items |-> slice(similarities, 0, k)]

\* the result of findTopKSimilar: [err, items]; err when cosineSimilarity throws
findTopKSimilar(queryVector, vectors, k) ==
  LET similarities == [i \in DOMAIN vectors |->
                         [id |-> vectors[i].id,
                          similarity |-> cosineSimilarity(queryVector, vectors[i].vector),
                          data |-> vectors[i].data]]
  IN IF \E i \in DOMAIN similarities : similarities[i].similarity.err
     THEN [err |-> TRUE, items |-> <<>>]
     ELSE [err |-> FALSE, items |-> slice(SortDescending(similarities), 0, k)]

(***************************************************************************)
(* Request validation (utils/ai-validation)                                *)
(***************************************************************************)
DefaultLimit ==
  10

MaxLimit ==
  50

MaxQueryLength ==
  500

\* 0.5, in hundredths
DefaultMinSimilarity ==
  50

\* the object the handler builds from c.req.query() and hands to the schema
SearchInput(q) ==
  [query |-> IF Truthy(q.query) THEN q.query ELSE <<>>,
   limit |-> IF Truthy(q.limit) THEN parseInt(q.limit) ELSE Num(100 * DefaultLimit),
   minSimilarity |-> IF Truthy(q.minSimilarity) THEN parseFloat(q.minSimilarity)
                     ELSE Num(DefaultMinSimilarity),
   category |-> q.category,
   brand |-> q.brand]

\* z.string().min(1).max(500): checked on the text as received
QueryAccepted(text) ==
  Len(text) >= 1 /\ Len(text) <= MaxQueryLength

\* z.number().int().positive().max(50)
LimitAccepted(x) ==
  ~x.nan /\ x.c % 100 = 0 /\ x.c > 0 /\ x.c <= 100 * MaxLimit

\* z.number().min(0).max(1)
MinSimilarityAccepted(x) ==
  ~x.nan /\ x.c >= 0 /\ x.c <= 100

\* semanticSearchSchema.parse: [ok |-> FALSE] stands for the thrown ZodError
semanticSearchSchema(input) ==
  IF /\ QueryAccepted(input.query)
     /\ LimitAccepted(input.limit)
     /\ MinSimilarityAccepted(input.minSimilarity)
  THEN [ok |-> TRUE,
        query |-> sanitizePrompt(input.query),
        limit |-> input.limit.c \div 100,
        minSimilarity |-> input.minSimilarity.c,
        category |-> input.category,
        brand |-> input.brand]
  ELSE [ok |-> FALSE, query |-> <<>>, limit |-> 0, minSimilarity |-> 0,
        category |-> Undefined, brand |-> Undefined]

(***************************************************************************)
(* The catalog store                                                       *)
(***************************************************************************)
\* a NULL vector_embedding column
NullEmbedding ==
  [null |-> TRUE, v |-> <<>>]

Embedding(vec) ==
  [null |-> FALSE, v |-> vec]

\* the rows of the seed data, in table order; status and embedding vary
ProductIds ==
  <<"prod-001", "prod-002", "prod-003">>

SeedName ==
  <<  <<"P","r","e","m","i","u","m"," ","W","i","r","e","l","e","s","s"," ","H","e","a","d","p","h","o","n","e","s">>,
      <<"S","m","a","r","t"," ","F","i","t","n","e","s","s"," ","W","a","t","c","h">>,
      <<"O","r","g","a","n","i","c"," ","C","o","t","t","o","n"," ","T","-","S","h","i","r","t">> >>

SeedDescription ==
  <<  <<"H","i","g","h","-","q","u","a","l","i","t","y"," ","w","i","r","e","l","e","s","s"," ","h","e","a","d","p","h","o","n","e","s"," ","w","i","t","h"," ","n","o","i","s","e"," ","c","a","n","c","e","l","l","a","t","i","o","n">>,
      <<"A","d","v","a","n","c","e","d"," ","f","i","t","n","e","s","s"," ","t","r","a","c","k","e","r"," ","w","i","t","h"," ","h","e","a","r","t"," ","r","a","t","e"," ","m","o","n","i","t","o","r","i","n","g">>,
      <<"C","o","m","f","o","r","t","a","b","l","e"," ","a","n","d"," ","s","u","s","t","a","i","n","a","b","l","e"," ","c","o","t","t","o","n"," ","t","-","s","h","i","r","t">> >>

SeedCategory ==
  <<  <<"E","l","e","c","t","r","o","n","i","c","s">>,
      <<"E","l","e","c","t","r","o","n","i","c","s">>,
      <<"C","l","o","t","h","i","n","g">> >>

SeedBrand ==
  <<  <<"A","u","d","i","o","T","e","c","h">>,
      <<"F","i","t","T","e","c","h">>,
      <<"E","c","o","W","e","a","r">> >>

\* the product row i of the catalog, with the given status and embedding
Product(i, st, emb) ==
  [id |-> ProductIds[i], name |-> SeedName[i], description |-> SeedDescription[i],
   category |-> SeedCategory[i], brand |-> SeedBrand[i],
   status |-> st, vectorEmbedding |-> emb]

\* SQLite's LIKE: % matches any run of characters, _ any one character,
\* letters compare without case
RECURSIVE Like(_, _)
Like(pattern, text) ==
  IF pattern = <<>> THEN text = <<>>
  ELSE IF pattern = <<"%">> THEN TRUE
  ELSE IF Head(pattern) = "%"
       THEN \E k \in 0..Len(text) : Like(Tail(pattern), SubSeq(text, k + 1, Len(text)))
       ELSE /\ text # <<>>
            /\ (Head(pattern) = "_" \/ LowerChar(Head(pattern)) = LowerChar(Head(text)))
            /\ Like(Tail(pattern), Tail(text))

\* the query without its LIMIT
SqlLimit_Unlimited(rows, n) ==
  rows

\* LIMIT n: the first n rows
SqlLimit(rows, n) ==
  SubSeq(rows, 1, IF n < Len(rows) THEN n ELSE Len(rows))

\* the conditions array: status = 'active' and the optional filters
Conditions(p, v) ==
  /\ p.status = "active"
  /\ (Truthy(v.category) => p.category = v.category)
  /\ (Truthy(v.brand) => p.brand = v.brand)

\* db.select().from(products).where(and(...conditions)).all(), in table order
SelectProducts(rows, v) ==
  LET Pass(p) == Conditions(p, v)
  IN SelectSeq(rows, Pass)

\* the WHERE clause of the fallback query as SQLite reads it: and(...) joins
\* its arguments with " and " inside one pair of parentheses, and the raw
\* fragment "name LIKE ? OR description LIKE ?" is joined unparenthesised,
\* so OR, binding weaker than AND, splits the clause in two
FallbackWhere(p, v) ==
  LET keywordQuery == <<"%">> \o v.query \o <<"%">>
  IN \/ (Conditions(p, v) /\ Like(keywordQuery, p.name))
     \/ Like(keywordQuery, p.description)

\* the fallback query: .where(...).limit(validated.limit).all()
SelectFallback(rows, v) ==
  LET Pass(p) == FallbackWhere(p, v)
  IN SqlLimit(SelectSeq(rows, Pass), v.limit)

(***************************************************************************)
(* GET /api/search (routes/search)                                         *)
(***************************************************************************)
VARIABLES
  catalog,      \* the products table: a sequence of rows in table order
  logs,         \* the ai_interaction_logs table: a sequence of entries
  req,          \* the query parameters and auth context of the request
  pc,           \* where the handler is
  validated,    \* the parsed request
  queryVector,  \* the embedding of the query
  response,     \* what the handler answered
  thrown,       \* what the try block threw: "none", "embedding", "dimension", "catalog"
  embedCalls,   \* calls made to the embedding provider for the request
  dbCalls,      \* statements sent to the catalog store for the request
  logPending,   \* the log inserts dispatched and not yet settled
  run,          \* the state of the batch vectorization script
  vz,           \* the POST /api/search/vectorize requests in progress
  calc,         \* a call of a vector-math function: its arguments and result
  limiter,      \* the rate-limit middleware: its store, the clock, its requests
  shop,         \* the POST /api/orders requests, the stock and the orders made
  chat          \* one POST /api/ai/chat stream and the client reading it

vars ==
  <<catalog, logs, req, pc, validated, queryVector, response, thrown,
    embedCalls, dbCalls, logPending, run, vz, calc, limiter, shop, chat>>

\* the rate-limit middleware before any request reached it
NoLimiter ==
  <<>>

\* the orders route before any request reached it
NoShop ==
  <<>>

\* no chat request made
NoChat ==
  <<>>

\* the similarity 0.3 given to keyword matches
KeywordScore ==
  Sim(3, 100)

\* rows returned by the fallback query carry no similarity field
NoSimilarity ==
  [err |-> FALSE, d |-> 0, n |-> 0]

NoAuth ==
  "none"

\* allProducts.filter(p => p.vectorEmbedding && Array.isArray(...)).map(...)
productsWithVectors(allProducts) ==
  LET HasVector(p) == ~p.vectorEmbedding.null
      withVectors == SelectSeq(allProducts, HasVector)
  IN [i \in DOMAIN withVectors |->
        [id |-> withVectors[i].id, vector |-> withVectors[i].vectorEmbedding.v,
         data |-> withVectors[i]]]

\* AboveThreshold with > in place of >=
AboveThreshold_Strict(results, minSimilarity) ==
  LET Keep(r) == SimLess(Sim(minSimilarity, 10000), r.similarity)
  IN SelectSeq(results, Keep)

\* .filter(result => result.similarity >= validated.minSimilarity)
AboveThreshold(results, minSimilarity) ==
  LET Keep(r) == SimAtLeast(r.similarity, minSimilarity)
  IN SelectSeq(results, Keep)

\* the substring test of step 4 on name, description, category and brand
KeywordMatch(p, query) ==
  LET q == toLowerCase(query)
  IN \/ includes(toLowerCase(p.name), q)
     \/ includes(toLowerCase(p.description), q)
     \/ includes(toLowerCase(p.category), q)
     \/ includes(toLowerCase(p.brand), q)

\* allProducts.filter(p => !p.vectorEmbedding).filter(keyword match)
keywordResults(allProducts, query) ==
  LET Keep(p) == p.vectorEmbedding.null /\ KeywordMatch(p, query)
  IN SelectSeq(allProducts, Keep)

\* combinedResults with the 0.3 score mapped over the whole merged list
combinedResults_ScoreAll(vectorResults, keywords, limit) ==
  LET vectorProductIds == { vectorResults[i].id : i \in DOMAIN vectorResults }
      NotInVector(p) == p.id \notin vectorProductIds
      fresh == SelectSeq(keywords, NotInVector)
  IN slice([i \in DOMAIN vectorResults |->
              [data |-> vectorResults[i].data,
               similarity |-> KeywordScore, via |-> "vector"]]
           \o [i \in DOMAIN fresh |->
                 [data |-> fresh[i], similarity |-> KeywordScore, via |-> "keyword"]],
           0, limit)

\* step 5: vector results first, then keyword results not among them,
\* cut to the limit; via records which branch produced the entry
combinedResults(vectorResults, keywords, limit) ==
  LET vectorProductIds == { vectorResults[i].id : i \in DOMAIN vectorResults }
      NotInVector(p) == p.id \notin vectorProductIds
      fresh == SelectSeq(keywords, NotInVector)
  IN slice([i \in DOMAIN vectorResults |->
              [data |-> vectorResults[i].data,
               similarity |-> vectorResults[i].similarity, via |-> "vector"]]
           \o [i \in DOMAIN fresh |->
                 [data |-> fresh[i], similarity |-> KeywordScore, via |-> "keyword"]],
           0, limit)

\* methodTag with the comparison >= 0 in place of > 0
methodTag_AlwaysHybrid(vectorResults) ==
  IF Len(vectorResults) >= 0 THEN "hybrid" ELSE "keyword"

\* method: vectorResults.length > 0 ? 'hybrid' : 'keyword'
methodTag(vectorResults) ==
  IF Len(vectorResults) > 0 THEN "hybrid" ELSE "keyword"

\* the rows of the fallback query as response entries
FallbackProducts(rows) ==
  [i \in DOMAIN rows |-> [data |-> rows[i], similarity |-> NoSimilarity, via |-> "fallback"]]

NoResponse ==
  [kind |-> "none", products |-> <<>>, total |-> 0, method |-> "none"]

ErrorResponse(k) ==
  [kind |-> k, products |-> <<>>, total |-> 0, method |-> "none"]

SuccessResponse(items, m) ==
  [kind |-> "success", products |-> items, total |-> Len(items), method |-> m]

NotValidated ==
  semanticSearchSchema(SearchInput([query |-> Undefined, limit |-> Undefined,
    minSimilarity |-> Undefined, category |-> Undefined, brand |-> Undefined]))

\* the aiInteractionLogs row of a search
LogEntry(userId, v, items) ==
  [userId |-> userId, interactionType |-> "search", queryText |-> v.query,
   relatedProductIds |-> [i \in DOMAIN items |-> items[i].data.id]]

\* the handler runs up to its first await: the request is parsed (a ZodError
\* ends it) and the query embedding is requested
Receive(q) ==
  /\ pc = "idle"
  /\ req' = q
  /\ LET v == semanticSearchSchema(SearchInput(q))
     IN /\ validated' = v
        /\ IF v.ok
           THEN /\ pc' = "awaitEmbed"
                /\ embedCalls' = embedCalls + 1
                /\ response' = response
           ELSE /\ pc' = "done"
                /\ embedCalls' = embedCalls
                /\ response' = ErrorResponse("zod_error")
  /\ UNCHANGED <<catalog, logs, queryVector, thrown, dbCalls, logPending, run, vz, calc, limiter, shop, chat>>

\* generateEmbedding resolves: the candidate pool is requested
EmbedResolve(vec) ==
  /\ pc = "awaitEmbed"
  /\ queryVector' = vec
  /\ pc' = "awaitSelect"
  /\ dbCalls' = dbCalls + 1
  /\ UNCHANGED <<catalog, logs, req, validated, response, thrown, embedCalls, logPending, run, vz, calc, limiter, shop, chat>>

\* EmbedReject without the try block: the provider error leaves the handler
EmbedReject_Propagates ==
  /\ pc = "awaitEmbed"
  /\ thrown' = "embedding"
  /\ pc' = "done"
  /\ response' = ErrorResponse("provider_error")
  /\ UNCHANGED <<catalog, logs, req, validated, queryVector, embedCalls, dbCalls, logPending, run, vz, calc, limiter, shop, chat>>

\* generateEmbedding rejects: the catch block sends the fallback query
EmbedReject ==
  /\ pc = "awaitEmbed"
  /\ thrown' = "embedding"
  /\ pc' = "awaitFallback"
  /\ dbCalls' = dbCalls + 1
  /\ UNCHANGED <<catalog, logs, req, validated, queryVector, response, embedCalls, logPending, run, vz, calc, limiter, shop, chat>>

\* the candidate pool arrives: steps 3 to 5, the log insert and the response;
\* an error thrown by findTopKSimilar lands in the catch block
SelectResolve ==
  /\ pc = "awaitSelect"
  /\ LET allProducts == SelectProducts(catalog, validated)
         top == findTopKSimilar(queryVector, productsWithVectors(allProducts),
                                validated.limit * 2)
         vectorResults == AboveThreshold(top.items, validated.minSimilarity)
         combined == combinedResults(vectorResults,
                                     keywordResults(allProducts, validated.query),
                                     validated.limit)
     IN IF top.err
        THEN /\ thrown' = "dimension"
             /\ pc' = "awaitFallback"
             /\ dbCalls' = dbCalls + 1
             /\ UNCHANGED <<response, logPending>>
        ELSE /\ response' = SuccessResponse(combined, methodTag(vectorResults))
             /\ pc' = "done"
             /\ IF req.auth # NoAuth
                THEN /\ logPending' = logPending \o <<LogEntry(req.auth, validated, combined)>>
                     /\ dbCalls' = dbCalls + 1
                ELSE UNCHANGED <<logPending, dbCalls>>
             /\ thrown' = thrown
  /\ UNCHANGED <<catalog, logs, req, validated, queryVector, embedCalls, run, vz, calc, limiter, shop, chat>>

\* the candidate query fails: the catch block sends the fallback query
SelectReject ==
  /\ pc = "awaitSelect"
  /\ thrown' = "catalog"
  /\ pc' = "awaitFallback"
  /\ dbCalls' = dbCalls + 1
  /\ UNCHANGED <<catalog, logs, req, validated, queryVector, response, embedCalls, logPending, run, vz, calc, limiter, shop, chat>>

\* the fallback query answers
FallbackResolve ==
  /\ pc = "awaitFallback"
  /\ response' = SuccessResponse(FallbackProducts(SelectFallback(catalog, validated)),
                                 "keyword-fallback")
  /\ pc' = "done"
  /\ UNCHANGED <<catalog, logs, req, validated, queryVector, thrown, embedCalls, dbCalls, logPending, run, vz, calc, limiter, shop, chat>>

\* the fallback query fails inside the catch block: the error leaves the handler
FallbackReject ==
  /\ pc = "awaitFallback"
  /\ response' = ErrorResponse("catalog_error")
  /\ pc' = "done"
  /\ UNCHANGED <<catalog, logs, req, validated, queryVector, thrown, embedCalls, dbCalls, logPending, run, vz, calc, limiter, shop, chat>>

\* the un-awaited insert into aiInteractionLogs completes
LogInsertResolve ==
  /\ logPending # <<>>
  /\ logs' = Append(logs, Head(logPending))
  /\ logPending' = Tail(logPending)
  /\ UNCHANGED <<catalog, req, pc, validated, queryVector, response, thrown, embedCalls, dbCalls, run, vz, calc, limiter, shop, chat>>

\* LogInsertReject with the insert awaited inside the try block: its failure
\* reaches the catch block and the fallback replaces the response
LogInsertReject_Awaited ==
  /\ logPending # <<>>
  /\ logPending' = Tail(logPending)
  /\ response' = SuccessResponse(FallbackProducts(SelectFallback(catalog, validated)),
                                 "keyword-fallback")
  /\ UNCHANGED <<catalog, logs, req, pc, validated, queryVector, thrown, embedCalls, dbCalls, run, vz, calc, limiter, shop, chat>>

\* the un-awaited insert fails: .catch logs the error and drops it
LogInsertReject ==
  /\ logPending # <<>>
  /\ logPending' = Tail(logPending)
  /\ UNCHANGED <<catalog, logs, req, pc, validated, queryVector, response, thrown, embedCalls, dbCalls, run, vz, calc, limiter, shop, chat>>

(***************************************************************************)
(* Batch vectorization (scripts/vectorize-products)                        *)
(***************************************************************************)
\* the items without an embedding the run starts from
NumItems ==
  12

\* how many items the provider may refuse to embed
MaxRejects ==
  1

\* how many times the script is run
MaxRuns ==
  2

batchSize ==
  10

\* parts.join(' ')
RECURSIVE Join(_)
Join(parts) ==
  IF parts = <<>> THEN <<>>
  ELSE IF Len(parts) = 1 THEN parts[1]
  ELSE parts[1] \o <<" ">> \o Join(Tail(parts))

\* [name, brand, category, description || ''].filter(Boolean).join(' ')
combineProductFields(product) ==
  LET NonEmpty(t) == Truthy(t)
  IN Join(SelectSeq(<<product.name, product.brand, product.category,
                      IF Truthy(product.description) THEN product.description ELSE <<>> >>,
                    NonEmpty))

\* the decimal digits of a natural number
RECURSIVE DigitsOf(_)
DigitsOf(x) ==
  IF x < 10 THEN <<DigitChars[x + 1]>>
  ELSE DigitsOf(x \div 10) \o <<DigitChars[(x % 10) + 1]>>

\* row i of the batch catalog: "Item i", with a description on even rows
BatchProduct(i, emb) ==
  [id |-> ToString(i),
   name |-> <<"I","t","e","m"," ">> \o DigitsOf(i),
   description |-> IF i % 2 = 0 THEN <<"d","e","s","c">> ELSE <<>>,
   category |-> <<"C","a","t">>, brand |-> <<"B">>,
   status |-> "active", vectorEmbedding |-> emb]

\* NumItems rows without an embedding after one row that has one
BatchCatalog ==
  <<BatchProduct(0, Embedding(<<1, 0>>))>>
  \o [i \in 1..NumItems |-> BatchProduct(i, NullEmbedding)]

\* what the provider answers for a text: a vector that tells texts apart
ProviderVector(text) ==
  <<Len(text), DigitsValue(SelectSeq(text, IsDigit))>>

\* the report of the run before this one: none before the first run
NoReport ==
  [runNo |-> 0, selected |-> 0, processedCount |-> 0, failed |-> FALSE]

\* the script before it starts.  Beside the script's own variables the record
\* keeps what it did: attempted (the start index of each batch whose
\* embeddings were requested), calls and writes (provider requests and catalog
\* updates of this run), delays (inter-batch timers that fired), dropped
\* (requests of a rejected batch still in flight), outOfOrder (a request
\* completed before one issued earlier in its batch)
NoRun ==
  [pc |-> "idle", products |-> <<>>, texts |-> <<>>, i |-> 0, pending |-> {},
   embeddings |-> <<>>, j |-> 0, processedCount |-> 0, delays |-> 0,
   updateErrors |-> 0, rejects |-> {}, attempted |-> <<>>, calls |-> 0,
   writes |-> 0, dropped |-> 0, outOfOrder |-> FALSE, runNo |-> 1,
   previous |-> NoReport]

\* productsToVectorize.slice(i, i + batchSize)
BatchOf(r) ==
  slice(r.products, r.i, r.i + batchSize)

\* the for loop reaches index i: the next batch asks for its embeddings, all
\* requests of generateBatchEmbeddings going out at once, or the loop ends
EnterBatch(r, i) ==
  IF i < Len(r.texts)
  THEN LET size == Len(slice(r.texts, i, i + batchSize))
       IN [r EXCEPT !.i = i, !.pc = "awaitEmbeddings", !.pending = 1..size,
                    !.embeddings = [k \in 1..size |-> <<>>], !.j = 0,
                    !.attempted = Append(@, i), !.calls = @ + size,
                    !.outOfOrder = FALSE]
  ELSE [r EXCEPT !.i = i, !.pc = "done", !.pending = {}, !.embeddings = <<>>, !.j = 0]

\* productsToVectorize without the where clause
productsToVectorize_All(rows) ==
  rows

\* .where(isNull(products.vectorEmbedding))
productsToVectorize(rows) ==
  LET IsNull(p) == p.vectorEmbedding.null
  IN SelectSeq(rows, IsNull)

\* the script starts: selection, the early return, the texts, the first batch
BatchStart ==
  /\ run.pc = "idle"
  /\ LET selected == productsToVectorize(catalog)
         r == [run EXCEPT !.products = selected,
                          !.texts = [k \in DOMAIN selected |-> combineProductFields(selected[k])]]
     IN run' = IF Len(selected) = 0 THEN [r EXCEPT !.pc = "done"] ELSE EnterBatch(r, 0)
  /\ UNCHANGED <<catalog, logs, req, pc, validated, queryVector, response, thrown,
                 embedCalls, dbCalls, logPending, vz, calc, limiter, shop, chat>>

\* EmbedContentResolve with the results collected in completion order
EmbedContentResolve_CompletionOrder(k) ==
  /\ run.pc = "awaitEmbeddings"
  /\ k \in run.pending
  /\ BatchOf(run)[k].id \notin run.rejects
  /\ LET text == slice(run.texts, run.i, run.i + batchSize)[k]
         at == Len(run.embeddings) - Cardinality(run.pending) + 1
         r == [run EXCEPT !.pending = @ \ {k}, !.embeddings[at] = ProviderVector(text),
                          !.outOfOrder = @ \/ \E earlier \in run.pending : earlier < k]
     IN run' = IF r.pending = {} THEN [r EXCEPT !.pc = "updating", !.j = 1] ELSE r
  /\ UNCHANGED <<catalog, logs, req, pc, validated, queryVector, response, thrown,
                 embedCalls, dbCalls, logPending, vz, calc, limiter, shop, chat>>

\* one embedContent of the batch resolves; once all have, Promise.all
\* resolves and the first update is sent
EmbedContentResolve(k) ==
  /\ run.pc = "awaitEmbeddings"
  /\ k \in run.pending
  /\ BatchOf(run)[k].id \notin run.rejects
  /\ LET text == slice(run.texts, run.i, run.i + batchSize)[k]
         r == [run EXCEPT !.pending = @ \ {k}, !.embeddings[k] = ProviderVector(text),
                          !.outOfOrder = @ \/ \E earlier \in run.pending : earlier < k]
     IN run' = IF r.pending = {} THEN [r EXCEPT !.pc = "updating", !.j = 1] ELSE r
  /\ UNCHANGED <<catalog, logs, req, pc, validated, queryVector, response, thrown,
                 embedCalls, dbCalls, logPending, vz, calc, limiter, shop, chat>>

\* EmbedContentReject without the try block inside the loop: the error ends
\* the run
EmbedContentReject_Aborts(k) ==
  /\ run.pc = "awaitEmbeddings"
  /\ k \in run.pending
  /\ BatchOf(run)[k].id \in run.rejects
  /\ run' = [run EXCEPT !.pc = "done", !.pending = {},
                        !.dropped = @ + Cardinality(run.pending \ {k})]
  /\ UNCHANGED <<catalog, logs, req, pc, validated, queryVector, response, thrown,
                 embedCalls, dbCalls, logPending, vz, calc, limiter, shop, chat>>

\* one embedContent of the batch rejects: Promise.all rejects, the catch
\* block logs the error and the loop goes on with the next batch
EmbedContentReject(k) ==
  /\ run.pc = "awaitEmbeddings"
  /\ k \in run.pending
  /\ BatchOf(run)[k].id \in run.rejects
  /\ run' = EnterBatch([run EXCEPT !.dropped = @ + Cardinality(run.pending \ {k})],
                       run.i + batchSize)
  /\ UNCHANGED <<catalog, logs, req, pc, validated, queryVector, response, thrown,
                 embedCalls, dbCalls, logPending, vz, calc, limiter, shop, chat>>

\* the loop body after the last update of a batch: the delay when another
\* batch follows, else the next iteration
AfterUpdates(r) ==
  IF r.i + batchSize < Len(r.texts) THEN [r EXCEPT !.pc = "delay"]
  ELSE EnterBatch(r, r.i + batchSize)

\* the update of product j of the batch is done
UpdateResolve ==
  /\ run.pc = "updating"
  /\ LET product == BatchOf(run)[run.j]
         r == [run EXCEPT !.processedCount = @ + 1, !.writes = @ + 1]
     IN /\ catalog' = [n \in DOMAIN catalog |->
                         IF catalog[n].id = product.id
                         THEN [catalog[n] EXCEPT !.vectorEmbedding = Embedding(run.embeddings[run.j])]
                         ELSE catalog[n]]
        /\ run' = IF run.j < Len(BatchOf(run)) THEN [r EXCEPT !.j = @ + 1]
                  ELSE AfterUpdates(r)
  /\ UNCHANGED <<logs, req, pc, validated, queryVector, response, thrown,
                 embedCalls, dbCalls, logPending, vz, calc, limiter, shop, chat>>

\* the rows whose update the catalog store may refuse
FlakyItems ==
  { ToString(3) }

\* UpdateReject with processedCount++ placed before the update
UpdateReject_CountsFirst ==
  /\ run.pc = "updating"
  /\ BatchOf(run)[run.j].id \in FlakyItems
  /\ run' = EnterBatch([run EXCEPT !.updateErrors = @ + 1, !.processedCount = @ + 1],
                       run.i + batchSize)
  /\ UNCHANGED <<catalog, logs, req, pc, validated, queryVector, response, thrown,
                 embedCalls, dbCalls, logPending, vz, calc, limiter, shop, chat>>

\* the update of product j fails: the catch block skips the rest of the batch
UpdateReject ==
  /\ run.pc = "updating"
  /\ BatchOf(run)[run.j].id \in FlakyItems
  /\ run' = EnterBatch([run EXCEPT !.updateErrors = @ + 1], run.i + batchSize)
  /\ UNCHANGED <<catalog, logs, req, pc, validated, queryVector, response, thrown,
                 embedCalls, dbCalls, logPending, vz, calc, limiter, shop, chat>>

\* the one-second timer between batches fires
DelayElapsed ==
  /\ run.pc = "delay"
  /\ run' = EnterBatch([run EXCEPT !.delays = @ + 1], run.i + batchSize)
  /\ UNCHANGED <<catalog, logs, req, pc, validated, queryVector, response, thrown,
                 embedCalls, dbCalls, logPending, vz, calc, limiter, shop, chat>>

\* a request of a batch that Promise.all already rejected settles: nothing
\* awaits it any more
EmbedContentDropped ==
  /\ run.dropped > 0
  /\ run' = [run EXCEPT !.dropped = @ - 1]
  /\ UNCHANGED <<catalog, logs, req, pc, validated, queryVector, response, thrown,
                 embedCalls, dbCalls, logPending, vz, calc, limiter, shop, chat>>

\* what the run printed: processed versus selected
ReportOf(r) ==
  [runNo |-> r.runNo, selected |-> Len(r.products), processedCount |-> r.processedCount,
   failed |-> (r.processedCount < Len(r.products))]

\* the script is started again once the process of the run before has ended
BatchRerun ==
  /\ run.pc = "done"
  /\ run.dropped = 0
  /\ run.runNo < MaxRuns
  /\ run' = [NoRun EXCEPT !.rejects = run.rejects, !.runNo = run.runNo + 1,
                          !.previous = ReportOf(run)]
  /\ UNCHANGED <<catalog, logs, req, pc, validated, queryVector, response, thrown,
                 embedCalls, dbCalls, logPending, vz, calc, limiter, shop, chat>>

(***************************************************************************)
(* The search requests and catalogs explored                               *)
(***************************************************************************)
QueryInputs ==
  { <<" ">>, <<"t">>,
    <<"w","i","r","e","l","e","s","s"," ","h","e","a","d","p","h","o","n","e","s">>,
    <<"A","u","d","i","o","T","e","c","h">> }

EmptyQueryInputs ==
  { Undefined, <<>> }

LimitInputs ==
  { Undefined, <<"1">>, <<"1",".","5">> }

OutOfRangeLimitInputs ==
  { <<"0">>, <<"5","1">>, <<"a","b","c">> }

MinSimilarityInputs ==
  { Undefined, <<"0">>, <<"0",".","3">> }

OutOfRangeMinSimilarityInputs ==
  { <<"1",".","5">>, <<"-","0",".","1">>, <<"a","b","c">> }

CategoryInputs ==
  { Undefined, SeedCategory[1] }

BrandInputs ==
  { Undefined, SeedBrand[1] }

AuthInputs ==
  { NoAuth, "user_1" }

\* the request ?query=wireless headphones with every other parameter absent
BaseRequest ==
  [query |-> <<"w","i","r","e","l","e","s","s"," ","h","e","a","d","p","h","o","n","e","s">>,
   limit |-> Undefined, minSimilarity |-> Undefined,
   category |-> Undefined, brand |-> Undefined, auth |-> NoAuth]

\* requests that vary the query, the limit and the threshold
RankingRequests ==
  { [BaseRequest EXCEPT !.query = q, !.limit = l, !.minSimilarity = m] :
      q \in QueryInputs, l \in LimitInputs, m \in MinSimilarityInputs }

\* requests that vary the query, the hard filters and the caller
FilterRequests ==
  { [BaseRequest EXCEPT !.query = q, !.category = c, !.brand = b, !.auth = a] :
      q \in QueryInputs, c \in CategoryInputs, b \in BrandInputs, a \in AuthInputs }

\* requests with one parameter empty or out of range
MalformedRequests ==
  { [BaseRequest EXCEPT !.query = q, !.auth = a] : q \in EmptyQueryInputs, a \in AuthInputs }
  \cup { [BaseRequest EXCEPT !.limit = l, !.auth = a] : l \in OutOfRangeLimitInputs, a \in AuthInputs }
  \cup { [BaseRequest EXCEPT !.minSimilarity = m, !.auth = a] :
           m \in OutOfRangeMinSimilarityInputs, a \in AuthInputs }

Requests ==
  RankingRequests \cup FilterRequests \cup MalformedRequests

\* what the embedding provider answers for a query
QueryVectors ==
  { <<1, 0, 0, 0>> }

\* a stored vector whose length is not the query vector's
MalformedEmbedding ==
  Embedding(<<1, 0>>)

\* the embeddings a row may hold: none, or a vector at cosine 0.4 or 0 from
\* the query vector; the first row may also hold the malformed one
StoredEmbeddings ==
  { NullEmbedding, Embedding(<<2, 4, 2, 1>>), Embedding(<<0, 1, 0, 0>>) }

RowEmbeddings(i) ==
  IF i = 1 THEN StoredEmbeddings \cup {MalformedEmbedding} ELSE StoredEmbeddings

\* the first row may be out of the 'active' status
RowStatuses(i) ==
  IF i = 1 THEN { "active", "in_stock" } ELSE { "active" }

Catalogs ==
  { c \in [DOMAIN ProductIds ->
             { Product(i, st, emb) : i \in DOMAIN ProductIds,
                 st \in {"active", "in_stock"},
                 emb \in StoredEmbeddings \cup {MalformedEmbedding} }] :
      \A i \in DOMAIN ProductIds :
        /\ c[i].id = ProductIds[i]
        /\ c[i].status \in RowStatuses(i)
        /\ c[i].vectorEmbedding \in RowEmbeddings(i) }

\* no vectorize request is in progress
NoVectorize ==
  <<>>

\* no vector-math call is under study
NoCalc ==
  [fn |-> "none"]

NoRequest ==
  [query |-> Undefined, limit |-> Undefined, minSimilarity |-> Undefined,
   category |-> Undefined, brand |-> Undefined, auth |-> NoAuth]

\* no request has arrived
InitHandler ==
  /\ logs = <<>>
  /\ req = NoRequest
  /\ pc = "idle"
  /\ validated = NotValidated
  /\ queryVector = <<>>
  /\ response = NoResponse
  /\ thrown = "none"
  /\ embedCalls = 0
  /\ dbCalls = 0
  /\ logPending = <<>>

Init ==
  /\ catalog \in Catalogs
  /\ InitHandler
  /\ run = NoRun
  /\ limiter = NoLimiter
  /\ shop = NoShop
  /\ chat = NoChat
  /\ vz = NoVectorize
  /\ calc = NoCalc

Next ==
  \/ \E q \in Requests : Receive(q)
  \/ \E vec \in QueryVectors : EmbedResolve(vec)
  \/ EmbedReject
  \/ SelectResolve
  \/ SelectReject
  \/ FallbackResolve
  \/ FallbackReject
  \/ LogInsertResolve
  \/ LogInsertReject

Spec ==
  Init /\ [][Next]_vars

\* the catalog as the seed data leaves it: no embeddings, status 'in_stock'
SeedCatalog ==
  [i \in DOMAIN ProductIds |-> Product(i, "in_stock", NullEmbedding)]

InitSeed ==
  /\ catalog = SeedCatalog
  /\ InitHandler
  /\ run = NoRun
  /\ limiter = NoLimiter
  /\ shop = NoShop
  /\ chat = NoChat
  /\ vz = NoVectorize
  /\ calc = NoCalc

\* The provider may never answer; the catalog store and the event loop do
\* their steps; a request need not arrive.
FairSpec ==
  /\ InitSeed /\ [][Next]_vars
  /\ WF_vars(SelectResolve \/ SelectReject)
  /\ WF_vars(FallbackResolve \/ FallbackReject)
  /\ WF_vars(LogInsertResolve \/ LogInsertReject)

(***************************************************************************)
(* Properties of GET /api/search                                           *)
(***************************************************************************)
Answered ==
  pc = "done" /\ response.kind = "success"

\* the text contains the query, ignoring case
ContainsIgnoringCase(text, query) ==
  includes(toLowerCase(text), toLowerCase(query))

\* C1: when the query embedding fails and the catalog store answers, the
\* handler returns success with method 'keyword-fallback' and rows that match
\* the query by keyword; the provider error never reaches the caller.
C1_EmbeddingFailureFallsBack ==
  (pc = "done" /\ thrown = "embedding" /\ response.kind # "catalog_error") =>
     /\ response.kind = "success"
     /\ response.method = "keyword-fallback"
     /\ \A i \in DOMAIN response.products :
          /\ response.products[i].via = "fallback"
          /\ \/ ContainsIgnoringCase(response.products[i].data.name, validated.query)
             \/ ContainsIgnoringCase(response.products[i].data.description, validated.query)

C1_Witness ==
  /\ Answered /\ thrown = "embedding"
  /\ response.method = "keyword-fallback"
  /\ response.products # <<>>

\* C2: a request whose query embedding has been requested eventually gets
\* its response, even when the provider never answers.
C2_HungProviderStillAnswers ==
  (pc = "awaitEmbed") ~> (pc = "done")

\* the hard filters of the request hold of a row
PassesHardFilters(p) ==
  /\ p.status = "active"
  /\ (req.category # Undefined => p.category = req.category)
  /\ (req.brand # Undefined => p.brand = req.brand)

\* C4: every returned item is active and has the requested category and
\* brand, on the hybrid path and on the keyword-fallback path.
C4_ResultsPassHardFilters ==
  Answered => \A i \in DOMAIN response.products :
                PassesHardFilters(response.products[i].data)

\* the rows the fallback is expected to find: filter-passing, with the query
\* in name, description, category or brand
ExpectedKeywordIds ==
  { catalog[i].id : i \in { j \in DOMAIN catalog :
      /\ PassesHardFilters(catalog[j])
      /\ \/ ContainsIgnoringCase(catalog[j].name, validated.query)
         \/ ContainsIgnoringCase(catalog[j].description, validated.query)
         \/ ContainsIgnoringCase(catalog[j].category, validated.query)
         \/ ContainsIgnoringCase(catalog[j].brand, validated.query) } }

ReturnedIds ==
  { response.products[i].data.id : i \in DOMAIN response.products }

\* C5: with the provider down the response is 'keyword-fallback' and holds,
\* up to limit, every filter-passing row whose name, description, category or
\* brand contains the query.
C5_FallbackFindsEveryKeywordMatch ==
  (Answered /\ thrown = "embedding") =>
     /\ response.method = "keyword-fallback"
     /\ Cardinality(ExpectedKeywordIds \cap ReturnedIds) >=
          (IF Cardinality(ExpectedKeywordIds) < validated.limit
           THEN Cardinality(ExpectedKeywordIds) ELSE validated.limit)

\* C6: scoring a search never raises the dimension-mismatch error.
C6_NoDimensionMismatchWhileScoring ==
  thrown # "dimension"

\* the text is an unsigned decimal integer
IsIntegerText(s) ==
  s # <<>> /\ \A i \in DOMAIN s : IsDigit(s[i])

\* the limit parameter, when given, is not an integer in 1..50
LimitNotInRange(r) ==
  /\ r.limit # Undefined
  /\ ~(IsIntegerText(r.limit) /\ DigitsValue(r.limit) \in 1..MaxLimit)

\* the text is an unsigned decimal number of at most two fraction digits
IsDecimalText(s) ==
  /\ s # <<>>
  /\ IsDigit(s[1])
  /\ \A i \in DOMAIN s : IsDigit(s[i]) \/ s[i] = "."
  /\ Cardinality({ i \in DOMAIN s : s[i] = "." }) <= 1
  /\ \A i \in DOMAIN s : s[i] = "." => (i < Len(s) /\ Len(s) - i <= 2)

\* the minSimilarity parameter, when given, is not a number in [0, 1]
MinSimilarityNotInRange(r) ==
  /\ r.minSimilarity # Undefined
  /\ ~(IsDecimalText(r.minSimilarity) /\ parseFloat(r.minSimilarity).c \in 0..100)

\* C7: a request with an empty query, a limit that is not an integer in
\* 1..50 or a minSimilarity outside [0,1] ends in a validation error with no
\* call to the embedding provider or the catalog store.
C7_InvalidRequestRejectedBeforeCalls ==
  (pc # "idle" /\ (req.query \in {Undefined, <<>>} \/ LimitNotInRange(req)
                   \/ MinSimilarityNotInRange(req))) =>
     /\ pc = "done"
     /\ response.kind = "zod_error"
     /\ embedCalls = 0
     /\ dbCalls = 0

\* C8: a scored response is in descending score order, and each keyword
\* entry comes after, and scores no higher than, each vector entry.
C8_ResponseInDescendingScoreOrder ==
  (Answered /\ response.method # "keyword-fallback") =>
     \A i, j \in DOMAIN response.products :
        i < j =>
          /\ ~SimLess(response.products[i].similarity, response.products[j].similarity)
          /\ ~(response.products[i].via = "keyword" /\ response.products[j].via = "vector")

\* the candidates findTopKSimilar keeps for the request
TopCandidates ==
  findTopKSimilar(queryVector, productsWithVectors(SelectProducts(catalog, validated)),
                  2 * validated.limit).items

\* C9: every vector-scored entry of the response has similarity >=
\* minSimilarity, and the vector entries are the top 2*limit candidates with
\* similarity >= minSimilarity, in order, up to the limit: the threshold step
\* drops none of them.
C9_ThresholdKeepsExactlyTheSimilarEnough ==
  (Answered /\ response.method # "keyword-fallback") =>
     LET AtLeast(r) == 10000 * SignedSquare(r.similarity.d)
                         >= validated.minSimilarity * validated.minSimilarity * r.similarity.n
         IsVector(e) == e.via = "vector"
         kept == SelectSeq(TopCandidates, AtLeast)
         shown == SelectSeq(response.products, IsVector)
     IN /\ \A i \in DOMAIN shown : AtLeast(shown[i])
        /\ Len(shown) = (IF Len(kept) < validated.limit THEN Len(kept) ELSE validated.limit)
        /\ \A i \in DOMAIN shown : shown[i].data.id = kept[i].id

\* a candidate at 0.4 is shown at minSimilarity 0.3 ...
C9_Witness ==
  /\ Answered /\ validated.minSimilarity = 30
  /\ \E i \in DOMAIN response.products :
       /\ response.products[i].via = "vector"
       /\ response.products[i].similarity = Sim(2, 25)

\* C10: no identifier appears twice in a response, and an item that has a
\* qualifying vector score and also matches the keyword appears with its
\* vector-derived similarity.
C10_EachItemOnceWithVectorScore ==
  Answered =>
     /\ \A i, j \in DOMAIN response.products :
          response.products[i].data.id = response.products[j].data.id => i = j
     /\ response.method # "keyword-fallback" =>
          \A i \in DOMAIN response.products :
             ~response.products[i].data.vectorEmbedding.null =>
                response.products[i].similarity =
                  cosineSimilarity(queryVector, response.products[i].data.vectorEmbedding.v)

C10_Witness ==
  /\ Answered /\ response.method = "hybrid"
  /\ \E i \in DOMAIN response.products :
       /\ ~response.products[i].data.vectorEmbedding.null
       /\ ContainsIgnoringCase(response.products[i].data.name, validated.query)
       /\ validated.query # <<>>

\* some entry of the response was vector-scored
VectorContributed ==
  \E i \in DOMAIN response.products : response.products[i].via = "vector"

\* C11: a successful response is tagged 'hybrid' exactly when a vector-scored
\* entry is in the returned list, 'keyword' exactly when nothing failed and no
\* vector-scored entry is in it, and 'keyword-fallback' exactly when the
\* embedding or the vector scoring failed.
C11_MethodTagTellsWhatHappened ==
  Answered =>
     /\ (response.method = "hybrid") <=> VectorContributed
     /\ (response.method = "keyword") <=> (thrown = "none" /\ ~VectorContributed)
     /\ (response.method = "keyword-fallback") <=> (thrown \in {"embedding", "dimension"})

\* C11 as the handler has it: the first two tags as claimed, and
\* 'keyword-fallback' exactly when the embedding, the candidate query or the
\* vector scoring failed
C11_TagsOfTheScoredPath ==
  Answered =>
     /\ (response.method = "hybrid") <=> VectorContributed
     /\ (response.method = "keyword") <=> (thrown = "none" /\ ~VectorContributed)
     /\ (response.method = "keyword-fallback") <=> (thrown # "none")

\* each tag is reached, 'keyword-fallback' also after a failed candidate query
C11_Witness ==
  /\ Answered /\ thrown = "catalog"
  /\ response.method = "keyword-fallback"

\* C12: a response is already sent whenever a log insert is pending, and the
\* settling of a log insert, failed or not, leaves the response as it was.
C12_LogInsertNeverTouchesResponse ==
  /\ [](logPending # <<>> => Answered)
  /\ [][logPending' # logPending /\ logPending # <<>> =>
          (response' = response /\ pc' = pc)]_vars

\* the insert of a signed-in caller's search failed after the response
C12_Witness ==
  /\ Answered /\ req.auth # NoAuth /\ response.method # "keyword-fallback"
  /\ logPending = <<>> /\ logs = <<>>

(***************************************************************************)
(* The batch vectorization run                                             *)
(***************************************************************************)
\* the items the provider may refuse: the first and the seventh of the first
\* batch and the first of the second
RejectableItems ==
  { ToString(1), ToString(7), ToString(batchSize + 1) }

\* the provider refuses a fixed set of at most MaxRejects items
InitBatch ==
  /\ catalog = BatchCatalog
  /\ InitHandler
  /\ limiter = NoLimiter
  /\ shop = NoShop
  /\ chat = NoChat
  /\ vz = NoVectorize
  /\ calc = NoCalc
  /\ \E rejected \in SUBSET RejectableItems :
        /\ Cardinality(rejected) <= MaxRejects
        /\ run = [NoRun EXCEPT !.rejects = rejected]

NextBatch ==
  \/ BatchStart
  \/ \E k \in 1..batchSize : EmbedContentResolve(k)
  \/ \E k \in 1..batchSize : EmbedContentReject(k)
  \/ UpdateResolve
  \/ UpdateReject
  \/ DelayElapsed
  \/ EmbedContentDropped
  \/ BatchRerun

BatchSpec ==
  InitBatch /\ [][NextBatch]_vars

\* the row with the given id holds an embedding
Embedded(id) ==
  \E n \in DOMAIN catalog : catalog[n].id = id /\ ~catalog[n].vectorEmbedding.null

\* C3: at the end of a run without catalog errors, every selected item the
\* provider did not refuse is embedded, and the count reported is the number
\* of those items (11 of 12 when the provider refuses item 7).
C3_BatchSiblingsPersisted ==
  (run.pc = "done" /\ run.updateErrors = 0) =>
     /\ \A k \in DOMAIN run.products :
          run.products[k].id \notin run.rejects => Embedded(run.products[k].id)
     /\ run.processedCount = Len(run.products) - Cardinality(run.rejects)

\* the steps of the script's loop
BatchStep ==
  \/ BatchStart
  \/ \E k \in 1..batchSize : EmbedContentResolve(k)
  \/ \E k \in 1..batchSize : EmbedContentReject(k)
  \/ UpdateResolve
  \/ UpdateReject
  \/ DelayElapsed

\* every request the script awaits settles and every timer fires
FairBatchSpec ==
  BatchSpec /\ WF_vars(BatchStep)

\* the start index of every batch of the run
AllBatchStarts(r) ==
  [n \in 1..((Len(r.texts) + batchSize - 1) \div batchSize) |-> (n - 1) * batchSize]

\* C13: a run whose batch failed still requests the embeddings of every later
\* batch, in order, and ends with its report of processed versus selected.
C13_BatchErrorDoesNotAbort ==
  /\ [](run.pc = "done" =>
          /\ run.attempted = AllBatchStarts(run)
          /\ run.processedCount <= Len(run.products))
  /\ ((run.pc = "awaitEmbeddings") ~> (run.pc = "done"))

\* a run that lost its first batch and processed its second
C13_Witness ==
  /\ run.pc = "done" /\ run.updateErrors = 0
  /\ run.processedCount > 0 /\ run.processedCount < Len(run.products)
  /\ Len(run.attempted) = 2

C15_DelayBetweenConsecutiveBatches ==
  /\ run.attempted # <<>> => run.delays = Len(run.attempted) - 1
  /\ run.pc = "awaitEmbeddings" => run.dropped = 0

\* C26: at the end of a run the processed count reported is the number of
\* selected items whose embedding the run wrote to the catalog, and it is at
\* most the number of items selected.
C26_ProcessedCountIsWhatWasWritten ==
  run.pc = "done" =>
     /\ ReportOf(run).processedCount =
          Cardinality({ k \in DOMAIN run.products : Embedded(run.products[k].id) })
     /\ ReportOf(run).processedCount = run.writes
     /\ ReportOf(run).processedCount <= ReportOf(run).selected

\* a run ended in which an update failed, a batch was refused by the provider
\* and other items were written
C26_Witness ==
  /\ run.pc = "done" /\ run.runNo = 1
  /\ run.updateErrors > 0 /\ run.rejects # {}
  /\ run.processedCount > 0 /\ run.processedCount < Len(run.products)

\* C17: when generateBatchEmbeddings resolves, it holds one vector per text
\* of the batch, the k-th being the embedding of the k-th text.
C17_BatchEmbeddingsInInputOrder ==
  run.pc = "updating" =>
     LET batch == slice(run.texts, run.i, run.i + batchSize)
     IN /\ Len(run.embeddings) = Len(batch)
        /\ \A k \in DOMAIN batch : run.embeddings[k] = ProviderVector(batch[k])

\* the batch resolved although a later request completed before an earlier one
C17_Witness ==
  /\ run.pc = "updating" /\ run.outOfOrder
  /\ Len(run.embeddings) = batchSize

(***************************************************************************)
(* Calls of the vector-math functions (services/vectorize)                 *)
(***************************************************************************)
\* the largest k and the longest candidate list tried
MaxK ==
  3

MaxCandidates ==
  3

\* the vectors tried: three of the query's length and one shorter
CalcVectors ==
  { <<1, 0>>, <<0, 1>>, <<1, 1>>, <<1>> }

CalcQueryVectors ==
  { <<1, 0>>, <<0, 1>>, <<1, 1>> }

\* candidate lists: the n-th candidate has id n and carries its index as data
CandidateLists ==
  UNION { { [i \in 1..n |-> [id |-> i, vector |-> f[i], data |-> i]] :
              f \in [1..n -> CalcVectors] } : n \in 0..MaxCandidates }

\* the call findTopKSimilar(queryVector, vectors, k) before it returns
TopKCall(q, list, kk) ==
  [fn |-> "findTopKSimilar", queryVector |-> q, vectors |-> list, k |-> kk,
   returned |-> FALSE, result |-> [err |-> FALSE, items |-> <<>>]]

InitTopK ==
  /\ catalog = <<>>
  /\ InitHandler
  /\ run = NoRun
  /\ limiter = NoLimiter
  /\ shop = NoShop
  /\ chat = NoChat
  /\ vz = NoVectorize
  /\ calc \in { TopKCall(q, list, kk) :
                  q \in CalcQueryVectors, list \in CandidateLists, kk \in (0 - MaxK)..MaxK }

\* findTopKSimilar runs to its return or to the throw of cosineSimilarity
CallFindTopKSimilar ==
  /\ calc.fn = "findTopKSimilar"
  /\ ~calc.returned
  /\ calc' = [calc EXCEPT !.returned = TRUE,
                          !.result = findTopKSimilar(calc.queryVector, calc.vectors, calc.k)]
  /\ UNCHANGED <<catalog, logs, req, pc, validated, queryVector, response, thrown,
                 embedCalls, dbCalls, logPending, run, vz, limiter, shop, chat>>

NextTopK ==
  CallFindTopKSimilar

TopKSpec ==
  InitTopK /\ [][NextTopK]_vars

\* C20: findTopKSimilar returns the empty sequence for k = 0 and for every
\* negative k.
C20_NonPositiveKGivesEmpty ==
  (calc.fn = "findTopKSimilar" /\ calc.returned /\ ~calc.result.err /\ calc.k <= 0) =>
     calc.result.items = <<>>

\* C21: for k >= 0 findTopKSimilar returns min(k, number of candidates)
\* entries, each a distinct candidate with its own id, payload and score, in
\* descending score order with ties in input order, and no candidate left out
\* scores higher than one returned.
C21_TopKAreTheBestInOrder ==
  (calc.fn = "findTopKSimilar" /\ calc.returned /\ ~calc.result.err /\ calc.k >= 0) =>
     LET items == calc.result.items
         n == Len(calc.vectors)
         Score(j) == cosineSimilarity(calc.queryVector, calc.vectors[j].vector)
         returned == { items[i].id : i \in DOMAIN items }
     IN /\ Len(items) = (IF calc.k < n THEN calc.k ELSE n)
        /\ \A i \in DOMAIN items :
             /\ items[i].id \in 1..n
             /\ items[i].data = calc.vectors[items[i].id].data
             /\ items[i].similarity = Score(items[i].id)
        /\ \A i, j \in DOMAIN items :
             i < j => /\ ~SimLess(items[i].similarity, items[j].similarity)
                      /\ (items[i].similarity = items[j].similarity => items[i].id < items[j].id)
        /\ \A i \in DOMAIN items : \A j \in (1..n) \ returned :
             ~SimLess(items[i].similarity, Score(j))

\* two of three candidates returned, out of input order, a tie among them
C21_Witness ==
  /\ calc.fn = "findTopKSimilar" /\ calc.returned /\ ~calc.result.err
  /\ calc.k = 2 /\ Len(calc.vectors) = 3
  /\ calc.result.items[1].id = 2 /\ calc.result.items[2].id = 3
  /\ calc.result.items[1].similarity = calc.result.items[2].similarity

(***************************************************************************)
(* POST /api/search/vectorize                                              *)
(***************************************************************************)
\* how many vectorize requests run at the same time
NumRequests ==
  2

\* z.string().uuid(): 8-4-4-4-12 hexadecimal digits
IsUuid(s) ==
  /\ Len(s) = 36
  /\ \A i \in 1..36 : IF i \in {9, 14, 19, 24} THEN s[i] = "-" ELSE IsHexDigit(s[i])

\* the identifier crypto.randomUUID() gave the n-th product
Uuid(n) ==
  LET Zeros(k) == [i \in 1..k |-> "0"]
  IN <<DigitChars[n + 1]>> \o Zeros(7) \o <<"-">> \o Zeros(4) \o <<"-">>
     \o <<"4">> \o Zeros(3) \o <<"-">> \o <<"8">> \o Zeros(3) \o <<"-">> \o Zeros(12)

\* the names of the two products: the second holds a word sanitizePrompt removes
CreatedNames ==
  << <<"L","a","m","p">>, <<"D","r","o","p"," ","L","a","m","p">> >>

\* a product as POST /api/admin/products leaves it
CreatedProduct(n, emb) ==
  [id |-> Uuid(n), name |-> CreatedNames[n], description |-> <<>>,
   category |-> <<"C","a","t">>, brand |-> <<"B">>,
   status |-> "active", vectorEmbedding |-> emb]

\* what the embedding provider may answer
ProviderVectors ==
  { <<1, 0, 0, 0>>, <<0, 1, 0, 0>> }

\* the first product may already hold an embedding
CreatedCatalogs ==
  { <<CreatedProduct(1, emb), CreatedProduct(2, NullEmbedding)>> :
      emb \in { NullEmbedding, Embedding(<<0, 1, 0, 0>>) } }

\* the forceRegenerate member of the JSON body: absent, a boolean, or a string
ForceInputs ==
  { "undefined", "true", "false", "string" }

\* who sends the request: "admin" carries a token verified with the admin
\* role, "user" a verified token without it, "none" no token
CallerInputs ==
  { "admin", "user", "none" }

\* a request: its JSON body and its caller
VectorizeBody(id, force, caller) ==
  [productId |-> id, forceRegenerate |-> force, caller |-> caller]

\* the requests tried: an admin's for both products with and without
\* forceRegenerate, for an unknown product, with an identifier that is no
\* UUID, with a flag that is no boolean; and one without a token
VectorizeBodies ==
  { VectorizeBody(Uuid(n), f, "admin") : n \in 1..2, f \in {"undefined", "true"} }
  \cup { VectorizeBody(Uuid(1), "false", "admin"), VectorizeBody(Uuid(9), "undefined", "admin"),
         VectorizeBody(<<"p","r","o","d","-","0","0","1">>, "undefined", "admin"),
         VectorizeBody(Uuid(1), "string", "admin"),
         VectorizeBody(Uuid(2), "undefined", "none") }

\* vectorizeProductSchema.parse(body)
vectorizeProductSchema(body) ==
  [ok |-> IsUuid(body.productId) /\ body.forceRegenerate \in {"undefined", "true", "false"},
   productId |-> body.productId,
   forceRegenerate |-> (body.forceRegenerate = "true")]

\* .where(eq(products.id, validated.productId)).get(): the rows found
ProductById(rows, id) ==
  LET Found(p) == p.id = id
  IN SelectSeq(rows, Found)

\* AlreadyVectorized without the test of the stored embedding
AlreadyVectorized_Never(product, v) ==
  FALSE

\* product.vectorEmbedding && !validated.forceRegenerate
AlreadyVectorized(product, v) ==
  ~product.vectorEmbedding.null /\ ~v.forceRegenerate

\* StoreEmbedding keeping the first component of the vector stored before
StoreEmbedding_Merges(rows, id, embedding) ==
  [n \in DOMAIN rows |->
     IF rows[n].id = id
     THEN [rows[n] EXCEPT !.vectorEmbedding =
             IF rows[n].vectorEmbedding.null THEN Embedding(embedding)
             ELSE Embedding([embedding EXCEPT ![1] = rows[n].vectorEmbedding.v[1]])]
     ELSE rows[n]]

\* update(products).set({ vectorEmbedding: embedding }).where(eq(products.id, id))
StoreEmbedding(rows, id, embedding) ==
  [n \in DOMAIN rows |->
     IF rows[n].id = id
     THEN [rows[n] EXCEPT !.vectorEmbedding = Embedding(embedding)]
     ELSE rows[n]]

NoProduct ==
  [id |-> <<>>, name |-> <<>>, description |-> <<>>, category |-> <<>>, brand |-> <<>>,
   status |-> "none", vectorEmbedding |-> NullEmbedding]

NoVectorizeResponse ==
  [kind |-> "none", message |-> "none", vectorLength |-> 0]

\* a vectorize handler before its request: calls and writes count its
\* provider requests and catalog updates
IdleVectorize ==
  [pc |-> "idle", body |-> VectorizeBody(<<>>, "undefined", "none"),
   validated |-> [ok |-> FALSE, productId |-> <<>>, forceRegenerate |-> FALSE],
   product |-> NoProduct, productText |-> <<>>, embedding |-> <<>>,
   response |-> NoVectorizeResponse, calls |-> 0, writes |-> 0]

\* the handler ends with an error leaving it
VectorizeFailed(h, k) ==
  [h EXCEPT !.pc = "done", !.response = [NoVectorizeResponse EXCEPT !.kind = k]]

\* handler r reads and parses its body (a ZodError ends it) and asks for the
\* product
VectorizeReceive(r, body) ==
  /\ vz[r].pc = "idle"
  /\ LET v == vectorizeProductSchema(body)
         h == [vz[r] EXCEPT !.body = body, !.validated = v]
     IN vz' = [vz EXCEPT ![r] = IF v.ok THEN [h EXCEPT !.pc = "awaitGet"]
                                ELSE VectorizeFailed(h, "zod_error")]
  /\ UNCHANGED <<catalog, logs, req, pc, validated, queryVector, response, thrown,
                 embedCalls, dbCalls, logPending, run, calc, limiter, shop, chat>>

\* the product arrives: NOT_FOUND, the 'already has vector embedding' answer,
\* or the combined text is sent to the provider
VectorizeGetResolve(r) ==
  /\ vz[r].pc = "awaitGet"
  /\ LET found == ProductById(catalog, vz[r].validated.productId)
         product == found[1]
     IN vz' = [vz EXCEPT ![r] =
                 IF found = <<>> THEN VectorizeFailed(@, "not_found")
                 ELSE IF AlreadyVectorized(product, @.validated)
                      THEN [@ EXCEPT !.pc = "done", !.product = product,
                                     !.response = [kind |-> "success", message |-> "already",
                                                   vectorLength |-> 0]]
                      ELSE [@ EXCEPT !.pc = "awaitEmbed", !.product = product,
                                     !.productText = combineProductFields(product),
                                     !.calls = @ + 1]]
  /\ UNCHANGED <<catalog, logs, req, pc, validated, queryVector, response, thrown,
                 embedCalls, dbCalls, logPending, run, calc, limiter, shop, chat>>

\* the select of the product fails: the error leaves the handler
VectorizeGetReject(r) ==
  /\ vz[r].pc = "awaitGet"
  /\ vz' = [vz EXCEPT ![r] = VectorizeFailed(@, "catalog_error")]
  /\ UNCHANGED <<catalog, logs, req, pc, validated, queryVector, response, thrown,
                 embedCalls, dbCalls, logPending, run, calc, limiter, shop, chat>>

\* generateEmbedding resolves: the update is sent
VectorizeEmbedResolve(r, vec) ==
  /\ vz[r].pc = "awaitEmbed"
  /\ vz' = [vz EXCEPT ![r] = [@ EXCEPT !.pc = "awaitUpdate", !.embedding = vec]]
  /\ UNCHANGED <<catalog, logs, req, pc, validated, queryVector, response, thrown,
                 embedCalls, dbCalls, logPending, run, calc, limiter, shop, chat>>

\* generateEmbedding rejects: the error leaves the handler
VectorizeEmbedReject(r) ==
  /\ vz[r].pc = "awaitEmbed"
  /\ vz' = [vz EXCEPT ![r] = VectorizeFailed(@, "provider_error")]
  /\ UNCHANGED <<catalog, logs, req, pc, validated, queryVector, response, thrown,
                 embedCalls, dbCalls, logPending, run, calc, limiter, shop, chat>>

\* the update is done: 'Product vectorized successfully'
VectorizeUpdateResolve(r) ==
  /\ vz[r].pc = "awaitUpdate"
  /\ catalog' = StoreEmbedding(catalog, vz[r].validated.productId, vz[r].embedding)
  /\ vz' = [vz EXCEPT ![r] =
              [@ EXCEPT !.pc = "done", !.writes = @ + 1,
                        !.response = [kind |-> "success", message |-> "vectorized",
                                      vectorLength |-> Len(vz[r].embedding)]]]
  /\ UNCHANGED <<logs, req, pc, validated, queryVector, response, thrown,
                 embedCalls, dbCalls, logPending, run, calc, limiter, shop, chat>>

\* the update fails: the error leaves the handler
VectorizeUpdateReject(r) ==
  /\ vz[r].pc = "awaitUpdate"
  /\ vz' = [vz EXCEPT ![r] = VectorizeFailed(@, "catalog_error")]
  /\ UNCHANGED <<catalog, logs, req, pc, validated, queryVector, response, thrown,
                 embedCalls, dbCalls, logPending, run, calc, limiter, shop, chat>>

InitVectorize ==
  /\ catalog \in CreatedCatalogs
  /\ InitHandler
  /\ run = NoRun
  /\ limiter = NoLimiter
  /\ shop = NoShop
  /\ chat = NoChat
  /\ vz = [r \in 1..NumRequests |-> IdleVectorize]
  /\ calc = NoCalc

NextVectorize ==
  \/ \E r \in DOMAIN vz, body \in VectorizeBodies : VectorizeReceive(r, body)
  \/ \E r \in DOMAIN vz : VectorizeGetResolve(r)
  \/ \E r \in DOMAIN vz : VectorizeGetReject(r)
  \/ \E r \in DOMAIN vz, vec \in ProviderVectors : VectorizeEmbedResolve(r, vec)
  \/ \E r \in DOMAIN vz : VectorizeEmbedReject(r)
  \/ \E r \in DOMAIN vz : VectorizeUpdateResolve(r)
  \/ \E r \in DOMAIN vz : VectorizeUpdateReject(r)

VectorizeSpec ==
  InitVectorize /\ [][NextVectorize]_vars

\* handler r found its product holding an embedding and was not asked to
\* regenerate it
FoundVectorized(r) ==
  /\ vz[r].pc \notin {"idle", "awaitGet"}
  /\ vz[r].validated.ok
  /\ vz[r].product # NoProduct
  /\ ~vz[r].product.vectorEmbedding.null
  /\ vz[r].body.forceRegenerate \in {"undefined", "false"}

\* C16: a vectorize request that finds its product holding an embedding,
\* forceRegenerate not set, answers 'already vectorized' with no provider
\* call and no write, and the step that answers leaves the catalog as it was.
C16_AlreadyVectorizedShortCircuits ==
  /\ [](\A r \in DOMAIN vz :
          FoundVectorized(r) =>
             /\ vz[r].pc = "done"
             /\ vz[r].response.kind = "success" /\ vz[r].response.message = "already"
             /\ vz[r].calls = 0 /\ vz[r].writes = 0)
  /\ [][\A r \in DOMAIN vz :
          (vz[r].response.message # "already" /\ vz'[r].response.message = "already")
             => catalog' = catalog]_vars

\* a request without forceRegenerate was answered 'already vectorized'
C16_Witness ==
  \E r \in DOMAIN vz :
     /\ FoundVectorized(r)
     /\ vz[r].response.message = "already"
     /\ vz[r].body.forceRegenerate = "undefined"

\* C22: a vectorize request whose caller is not a verified admin makes no
\* call to the embedding provider and no write to the catalog.
C22_VectorizeIsAdminOnly ==
  \A r \in DOMAIN vz :
     vz[r].body.caller # "admin" => (vz[r].calls = 0 /\ vz[r].writes = 0)

\* the handlers whose update of the product was done
Writers(id) ==
  { r \in DOMAIN vz : vz[r].writes > 0 /\ vz[r].validated.productId = id }

\* C18: a product written by vectorize requests holds exactly the vector one
\* of them generated, a product written by one request holds that request's
\* vector, and each completed update sets its product's vector to the whole
\* generated vector and leaves every other row as it was.
C18_WritesReplaceWholeVector ==
  /\ [](\A i \in DOMAIN catalog :
          Writers(catalog[i].id) # {} =>
             \E r \in Writers(catalog[i].id) :
                catalog[i].vectorEmbedding = Embedding(vz[r].embedding))
  /\ [][\A r \in DOMAIN vz :
          (vz[r].pc = "awaitUpdate" /\ vz'[r].response.message = "vectorized") =>
             \A i \in DOMAIN catalog :
                IF catalog[i].id = vz[r].validated.productId
                THEN catalog'[i] = [catalog[i] EXCEPT
                                      !.vectorEmbedding = Embedding(vz[r].embedding)]
                ELSE catalog'[i] = catalog[i]]_vars

\* two requests have written different vectors to the same product
C18_Witness ==
  \E r1, r2 \in DOMAIN vz :
     /\ r1 # r2
     /\ vz[r1].response.message = "vectorized" /\ vz[r2].response.message = "vectorized"
     /\ vz[r1].validated.productId = vz[r2].validated.productId
     /\ vz[r1].embedding # vz[r2].embedding

(***************************************************************************)
(* Vectorize, then search for the item's combined text                     *)
(***************************************************************************)
\* GET /api/search?query=<combined text of the product>, all else default
RoundTripRequest(product, auth) ==
  [BaseRequest EXCEPT !.query = combineProductFields(product), !.auth = auth]

\* every vectorize handler has answered
VectorizeDone ==
  \A r \in DOMAIN vz : vz[r].pc = "done"

InitRoundTrip ==
  /\ catalog \in CreatedCatalogs
  /\ InitHandler
  /\ run = NoRun
  /\ limiter = NoLimiter
  /\ shop = NoShop
  /\ chat = NoChat
  /\ vz = <<IdleVectorize>>
  /\ calc = NoCalc

\* one vectorize request, and once it is answered one search
NextRoundTrip ==
  \/ \E r \in DOMAIN vz, body \in VectorizeBodies : VectorizeReceive(r, body)
  \/ \E r \in DOMAIN vz : VectorizeGetResolve(r)
  \/ \E r \in DOMAIN vz : VectorizeGetReject(r)
  \/ \E r \in DOMAIN vz, vec \in ProviderVectors : VectorizeEmbedResolve(r, vec)
  \/ \E r \in DOMAIN vz : VectorizeEmbedReject(r)
  \/ \E r \in DOMAIN vz : VectorizeUpdateResolve(r)
  \/ \E r \in DOMAIN vz : VectorizeUpdateReject(r)
  \/ /\ VectorizeDone
     /\ \E i \in DOMAIN catalog, a \in AuthInputs : Receive(RoundTripRequest(catalog[i], a))
  \/ \E vec \in ProviderVectors : EmbedResolve(vec)
  \/ EmbedReject
  \/ SelectResolve
  \/ SelectReject
  \/ FallbackResolve
  \/ FallbackReject
  \/ LogInsertResolve
  \/ LogInsertReject

RoundTripSpec ==
  InitRoundTrip /\ [][NextRoundTrip]_vars

\* the search was for the combined text of the product the vectorize request
\* embedded, the provider answered it, and its answer for the text it
\* embedded before is the vector it gave before
RoundTripSearched ==
  /\ vz[1].response.message = "vectorized"
  /\ pc = "done" /\ thrown = "none"
  /\ req.query = vz[1].productText
  /\ (validated.ok /\ validated.query = vz[1].productText) => queryVector = vz[1].embedding

\* C19: a search for the combined text of a product just vectorized returns
\* that product with a similarity above 0.5.
C19_RoundTripFindsTheItem ==
  RoundTripSearched =>
     /\ response.kind = "success"
     /\ \E i \in DOMAIN response.products :
          /\ response.products[i].data.id = vz[1].validated.productId
          /\ SimLess(Sim(DefaultMinSimilarity, 10000), response.products[i].similarity)

\* ---------------------------------------------------------------------
\* filterSimilarResults (services/vectorize). Scores and thresholds are
\* counted in fortieths: the scores tried are multiples of 1/8, which
\* floating point subtracts exactly, and 0.95 lies on the grid.
\* ---------------------------------------------------------------------

\* the longest result list tried
MaxResults ==
  3

\* 1 in fortieths
FilterOne ==
  40

\* threshold: number = 0.95
DefaultThreshold ==
  38

\* Math.abs
Abs(x) ==
  IF x < 0 THEN 0 - x ELSE x

\* isDuplicate with <= in place of <
isDuplicate_Inclusive(filtered, result, threshold) ==
  \E n \in DOMAIN filtered :
     Abs(filtered[n].similarity - result.similarity) <= (FilterOne - threshold)

\* filtered.some((existing) =>
\*    Math.abs(existing.similarity - result.similarity) < (1 - threshold))
isDuplicate(filtered, result, threshold) ==
  \E n \in DOMAIN filtered :
     Abs(filtered[n].similarity - result.similarity) < (FilterOne - threshold)

\* the loop over results from index i on
RECURSIVE FilterLoop(_, _, _, _)
FilterLoop(results, i, filtered, threshold) ==
  IF i > Len(results) THEN filtered
  ELSE FilterLoop(results, i + 1,
                  IF isDuplicate(filtered, results[i], threshold) THEN filtered
                  ELSE Append(filtered, results[i]),
                  threshold)

\* filterSimilarResults(results, threshold = 0.95)
filterSimilarResults(results, threshold) ==
  FilterLoop(results, 1, <<>>, IF threshold.passed THEN threshold.value ELSE DefaultThreshold)

\* the scores tried: 1, 0.875, 0.75, 0.5
FilterScores ==
  { 40, 35, 30, 20 }

\* the second argument: passed or left out
Threshold(passed, value) ==
  [passed |-> passed, value |-> value]

\* the thresholds tried: left out, 0.875, 0.75, 0.5
FilterThresholds ==
  { Threshold(FALSE, 0), Threshold(TRUE, 35), Threshold(TRUE, 30), Threshold(TRUE, 20) }

\* result lists: the n-th result has id n
ResultLists ==
  UNION { { [i \in 1..n |-> [id |-> i, similarity |-> f[i]]] :
              f \in [1..n -> FilterScores] } : n \in 0..MaxResults }

\* the call filterSimilarResults(results, threshold) before it returns
FilterCall(list, t) ==
  [fn |-> "filterSimilarResults", results |-> list, threshold |-> t,
   returned |-> FALSE, result |-> <<>>]

InitFilter ==
  /\ catalog = <<>>
  /\ InitHandler
  /\ run = NoRun
  /\ limiter = NoLimiter
  /\ shop = NoShop
  /\ chat = NoChat
  /\ vz = NoVectorize
  /\ calc \in { FilterCall(list, t) : list \in ResultLists, t \in FilterThresholds }

\* filterSimilarResults runs to its return
CallFilterSimilarResults ==
  /\ calc.fn = "filterSimilarResults"
  /\ ~calc.returned
  /\ calc' = [calc EXCEPT !.returned = TRUE,
                          !.result = filterSimilarResults(calc.results, calc.threshold)]
  /\ UNCHANGED <<catalog, logs, req, pc, validated, queryVector, response, thrown,
                 embedCalls, dbCalls, logPending, run, vz, limiter, shop, chat>>

NextFilter ==
  CallFilterSimilarResults

FilterSpec ==
  InitFilter /\ [][NextFilter]_vars

\* C27: filterSimilarResults returns a subsequence of its input in input
\* order; the first result is kept, and a later result is kept exactly when
\* its score differs by at least 1 - threshold from the score of every result
\* kept before it.
C27_FilterKeepsTheDistinctScores ==
  (calc.fn = "filterSimilarResults" /\ calc.returned) =>
     LET in == calc.results
         out == calc.result
         gap == FilterOne - (IF calc.threshold.passed THEN calc.threshold.value ELSE 38)
         kept == { out[i].id : i \in DOMAIN out }
     IN /\ \A i \in DOMAIN out : out[i].id \in DOMAIN in /\ out[i] = in[out[i].id]
        /\ \A i, j \in DOMAIN out : i < j => out[i].id < out[j].id
        /\ in # <<>> => (out # <<>> /\ out[1] = in[1])
        /\ \A j \in DOMAIN in :
              j > 1 =>
                (j \in kept <=>
                   \A i \in kept : i < j => Abs(in[i].similarity - in[j].similarity) >= gap)

\* of three results the second was dropped as too close to the first, and
\* the third, exactly 1 - threshold away from the first, was kept
C27_Witness ==
  /\ calc.fn = "filterSimilarResults" /\ calc.returned
  /\ calc.threshold.passed
  /\ Len(calc.results) = 3
  /\ Len(calc.result) = 2 /\ calc.result[2].id = 3
  /\ Abs(calc.results[1].similarity - calc.results[3].similarity) = FilterOne - calc.threshold.value

\* C24: a search response holds at most limit products on every path, and its
\* total is the number of products it returns.
C24_AtMostLimitProducts ==
  Answered =>
     /\ Len(response.products) <= validated.limit
     /\ response.total = Len(response.products)

\* the fallback query matched more rows than the limit and returned limit
C24_Witness ==
  /\ Answered /\ response.method = "keyword-fallback"
  /\ Len(response.products) = validated.limit
  /\ LET Pass(p) == FallbackWhere(p, validated)
     IN Len(SelectSeq(catalog, Pass)) > validated.limit

\* the scored path had more candidates than the limit and returned limit
C24_ScoredPathTruncated ==
  /\ Answered /\ response.method # "keyword-fallback"
  /\ Len(response.products) = validated.limit
  /\ Len(AboveThreshold(findTopKSimilar(queryVector,
           productsWithVectors(SelectProducts(catalog, validated)),
           validated.limit * 2).items, validated.minSimilarity))
       + Len(keywordResults(SelectProducts(catalog, validated), validated.query))
       > validated.limit

\* C25: the query handed to the embedding provider and to keyword matching
\* is never the empty text: a query that is empty after sanitization is
\* rejected as an empty query.
C25_SanitizedQueryNeverEmpty ==
  /\ (embedCalls > 0 \/ dbCalls > 0) => validated.query # <<>>
  /\ (pc # "idle" /\ req.query # Undefined /\ sanitizePrompt(req.query) = <<>>) =>
        (pc = "done" /\ response.kind = "zod_error")

\* ---------------------------------------------------------------------
\* Rate limiting (middleware/rate-limit.ts) in front of the search and
\* the AI routes
\* ---------------------------------------------------------------------

\* the clock advances by half a window, at most this many times
MaxTicks ==
  3

\* 20 requests per 15 minutes
AI_RATE_LIMIT ==
  [windowMs |-> 15 * 60 * 1000, maxRequests |-> 20]

\* 60 requests per minute
SEARCH_RATE_LIMIT ==
  [windowMs |-> 60 * 1000, maxRequests |-> 60]

\* a header that is absent or empty: both are falsy
NoHeader ==
  ""

\* rateLimitStore.set(key, entry)
StoreSet(store, key, entry) ==
  [k \in DOMAIN store \cup {key} |-> IF k = key THEN entry ELSE store[k]]

\* checkRateLimit with the test count > maxRequests
checkRateLimit_OffByOne(store, now, key, config) ==
  IF key \notin DOMAIN store \/ now > store[key].resetTime
  THEN LET resetTime == now + config.windowMs
       IN [allowed |-> TRUE, remaining |-> config.maxRequests - 1, resetTime |-> resetTime,
           store |-> StoreSet(store, key, [count |-> 1, resetTime |-> resetTime])]
  ELSE IF store[key].count > config.maxRequests
  THEN [allowed |-> FALSE, remaining |-> 0, resetTime |-> store[key].resetTime,
        store |-> store]
  ELSE LET count == store[key].count + 1
       IN [allowed |-> TRUE, remaining |-> config.maxRequests - count,
           resetTime |-> store[key].resetTime,
           store |-> StoreSet(store, key, [count |-> count, resetTime |-> store[key].resetTime])]

\* checkRateLimit(userId, config) at time now: the answer and the store after
\* it. The function has no await: it runs as one step.
checkRateLimit(store, now, key, config) ==
  IF key \notin DOMAIN store \/ now > store[key].resetTime
  THEN LET resetTime == now + config.windowMs
       IN [allowed |-> TRUE, remaining |-> config.maxRequests - 1, resetTime |-> resetTime,
           store |-> StoreSet(store, key, [count |-> 1, resetTime |-> resetTime])]
  ELSE IF store[key].count >= config.maxRequests
  THEN [allowed |-> FALSE, remaining |-> 0, resetTime |-> store[key].resetTime,
        store |-> store]
  ELSE LET count == store[key].count + 1
       IN [allowed |-> TRUE, remaining |-> config.maxRequests - count,
           resetTime |-> store[key].resetTime,
           store |-> StoreSet(store, key, [count |-> count, resetTime |-> store[key].resetTime])]

\* cleanupExpiredEntries at time now
cleanupExpiredEntries(store, now) ==
  [k \in { x \in DOMAIN store : ~(now > store[x].resetTime) } |-> store[k]]

\* a request as the middleware sees it: the Authorization header ("valid"
\* is a bearer token Clerk verifies for userId, "none" no header), and the
\* CF-Connecting-IP header
LimitedRequest(token, userId, ip) ==
  [token |-> token, userId |-> userId, ip |-> ip]

\* optionalAuth: the auth context it sets, NoAuth without a valid token
optionalAuth(request) ==
  IF request.token = "valid" THEN request.userId ELSE NoAuth

\* clerkAuth: the auth context it sets; it answers 401 without a valid token
clerkAuth(request) ==
  IF request.token = "valid" THEN request.userId ELSE NoAuth

\* the search app with optionalAuth registered before the rate limiter
AuthAtSearchRateLimit_AfterOptionalAuth(request) ==
  optionalAuth(request)

\* getAuthUser(c) inside searchRateLimit: the limiter is the first middleware
\* of the search app (app.use('*', searchRateLimit)), optionalAuth is a
\* middleware of the route and runs after it, so nothing has set 'auth' yet
AuthAtSearchRateLimit(request) ==
  NoAuth

\* auth?.userId || c.req.header('CF-Connecting-IP') || 'anonymous'
LimitedUserId(auth, request) ==
  IF auth # NoAuth /\ auth # NoHeader THEN auth
  ELSE IF request.ip # NoHeader THEN request.ip
  ELSE "anonymous"

\* `${prefix}:${userId}`
LimitKey(prefix, userId) ==
  <<prefix, userId>>

\* the requests sent to the search routes
SearchCallers ==
  { LimitedRequest("valid", "user_1", "203.0.113.7"),
    LimitedRequest("none", NoHeader, "203.0.113.7"),
    LimitedRequest("none", NoHeader, NoHeader) }

\* the requests sent to the AI routes
AiCallers ==
  { LimitedRequest("valid", "user_1", "203.0.113.7"),
    LimitedRequest("valid", "user_2", "203.0.113.7"),
    LimitedRequest("none", NoHeader, "203.0.113.7") }

\* no request was the last step
NoLimited ==
  [op |-> "none"]

\* what the last step of the middleware did with a request
Limited(request, key, status, result) ==
  [op |-> "request", request |-> request, key |-> key, status |-> status,
   result |-> result]

\* the requests allowed in the window the store holds for the key: one more,
\* or the first of a window that the request started
GrantsAfter(grants, key, before, after) ==
  [k \in DOMAIN grants \cup {key} |->
     IF k # key THEN grants[k]
     ELSE IF key \in DOMAIN before /\ before[key].resetTime = after[key].resetTime
          THEN grants[k] + 1
          ELSE 1]

\* the config of the limiter in front of the route
ConfigOf(route) ==
  IF route = "search" THEN SEARCH_RATE_LIMIT ELSE AI_RATE_LIMIT

\* searchRateLimit: key, check, 429 or next()
SearchRateLimit(request) ==
  /\ limiter # NoLimiter
  /\ limiter.route = "search"
  /\ LET auth == AuthAtSearchRateLimit(request)
         key == LimitKey("search", LimitedUserId(auth, request))
         result == checkRateLimit(limiter.store, limiter.now, key, SEARCH_RATE_LIMIT)
     IN limiter' = [limiter EXCEPT
           !.store = result.store,
           !.grants = IF result.allowed
                      THEN GrantsAfter(@, key, limiter.store, result.store) ELSE @,
           !.last = Limited(request, key, IF result.allowed THEN "next" ELSE "429",
                            [allowed |-> result.allowed, remaining |-> result.remaining,
                             resetTime |-> result.resetTime])]
  /\ UNCHANGED <<catalog, logs, req, pc, validated, queryVector, response, thrown,
                 embedCalls, dbCalls, logPending, run, vz, calc, shop, chat>>

\* clerkAuth then aiRateLimit: 401, or key, check, 429 or next()
AiRateLimit(request) ==
  /\ limiter # NoLimiter
  /\ limiter.route = "ai"
  /\ LET auth == clerkAuth(request)
         key == LimitKey("ai", auth)
         result == checkRateLimit(limiter.store, limiter.now, key, AI_RATE_LIMIT)
     IN IF auth = NoAuth
        THEN limiter' = [limiter EXCEPT
                !.last = Limited(request, LimitKey("ai", NoHeader), "401",
                                 [allowed |-> FALSE, remaining |-> 0, resetTime |-> 0])]
        ELSE limiter' = [limiter EXCEPT
                !.store = result.store,
                !.grants = IF result.allowed
                           THEN GrantsAfter(@, key, limiter.store, result.store) ELSE @,
                !.last = Limited(request, key, IF result.allowed THEN "next" ELSE "429",
                                 [allowed |-> result.allowed, remaining |-> result.remaining,
                                  resetTime |-> result.resetTime])]
  /\ UNCHANGED <<catalog, logs, req, pc, validated, queryVector, response, thrown,
                 embedCalls, dbCalls, logPending, run, vz, calc, shop, chat>>

\* time passes: half a window
LimiterTick ==
  /\ limiter # NoLimiter
  /\ limiter.ticks < MaxTicks
  /\ limiter' = [limiter EXCEPT
        !.now = @ + (ConfigOf(limiter.route).windowMs \div 2),
        !.ticks = @ + 1,
        !.last = NoLimited]
  /\ UNCHANGED <<catalog, logs, req, pc, validated, queryVector, response, thrown,
                 embedCalls, dbCalls, logPending, run, vz, calc, shop, chat>>

\* setInterval(cleanupExpiredEntries, 5 * 60 * 1000) fires
LimiterCleanup ==
  /\ limiter # NoLimiter
  /\ limiter' = [limiter EXCEPT
        !.store = cleanupExpiredEntries(@, limiter.now),
        !.last = NoLimited]
  /\ UNCHANGED <<catalog, logs, req, pc, validated, queryVector, response, thrown,
                 embedCalls, dbCalls, logPending, run, vz, calc, shop, chat>>

\* a Worker instance that has handled nothing yet, in front of one of the
\* two routes
InitRateLimit ==
  /\ InitHandler
  /\ catalog = SeedCatalog
  /\ run = NoRun
  /\ vz = NoVectorize
  /\ calc = NoCalc
  /\ shop = NoShop
  /\ chat = NoChat
  /\ limiter \in { [route |-> r, now |-> 0, ticks |-> 0, store |-> <<>>, grants |-> <<>>,
                    last |-> NoLimited] : r \in {"search", "ai"} }

NextRateLimit ==
  \/ \E request \in SearchCallers : SearchRateLimit(request)
  \/ \E request \in AiCallers : AiRateLimit(request)
  \/ LimiterTick
  \/ LimiterCleanup

RateLimitSpec ==
  InitRateLimit /\ [][NextRateLimit]_vars

\* the store never counts past the maximum and no key was allowed more
\* than the maximum in one window
WithinLimit ==
  \A key \in DOMAIN limiter.store :
     /\ limiter.store[key].count <= ConfigOf(limiter.route).maxRequests
     /\ limiter.grants[key] <= ConfigOf(limiter.route).maxRequests
     /\ limiter.grants[key] = limiter.store[key].count

\* a rejected request leaves the store as it was
RejectionChangesNothing ==
  (limiter'.last.op = "request" /\ limiter'.last.status = "429") =>
     limiter'.store = limiter.store

\* a request that comes after the resetTime of its key is allowed and starts
\* a window of its own with count 1
FirstAfterResetStartsWindow ==
  (/\ limiter'.last.op = "request"
   /\ limiter'.last.status # "401"
   /\ limiter'.last # limiter.last
   /\ limiter'.last.key \in DOMAIN limiter.store
   /\ limiter.now > limiter.store[limiter'.last.key].resetTime) =>
     /\ limiter'.last.status = "next"
     /\ limiter'.store[limiter'.last.key] =
          [count |-> 1, resetTime |-> limiter.now + ConfigOf(limiter.route).windowMs]

\* C23: for each key at most maxRequests requests are allowed in a window
\* and the stored count never exceeds maxRequests; a rejected request changes
\* neither count nor resetTime; the first request after resetTime is allowed
\* and starts a new window with count 1.
C23_AtMostMaxPerWindow ==
  /\ [](limiter # NoLimiter => WithinLimit)
  /\ [][RejectionChangesNothing /\ FirstAfterResetStartsWindow]_vars

\* a request was rejected at the very end of a full window (now = resetTime)
C23_Witness ==
  /\ limiter # NoLimiter
  /\ limiter.last.op = "request"
  /\ limiter.last.status = "429"
  /\ limiter.store[limiter.last.key].count = ConfigOf(limiter.route).maxRequests
  /\ limiter.now = limiter.store[limiter.last.key].resetTime

\* C28: a search request with a valid token is limited under the key of its
\* user id; the key of the client IP or 'anonymous' is used only for a request
\* without valid authentication.
C28_SearchLimitedPerUser ==
  (limiter # NoLimiter /\ limiter.route = "search" /\ limiter.last.op = "request") =>
     LET request == limiter.last.request
     IN IF optionalAuth(request) # NoAuth
        THEN limiter.last.key = LimitKey("search", request.userId)
        ELSE limiter.last.key \in { LimitKey("search", request.ip),
                                    LimitKey("search", "anonymous") }

\* ---------------------------------------------------------------------
\* POST /api/orders (routes/orders)
\* ---------------------------------------------------------------------

\* the requests in progress at once
NumOrderRequests ==
  2

\* the stock_quantity of the product before the requests
InitialStock ==
  3

\* the products on sale
ShopProducts ==
  { Uuid(1) }

\* one entry of items
OrderItem(productId, quantity) ==
  [productId |-> productId, quantity |-> quantity]

\* the items arrays sent: one item, the same product twice, more than the
\* stock, an unknown product, a quantity that is not positive
OrderBodies ==
  { << OrderItem(Uuid(1), 1) >>,
    << OrderItem(Uuid(1), 2), OrderItem(Uuid(1), 2) >>,
    << OrderItem(Uuid(1), 4) >>,
    << OrderItem(Uuid(9), 1) >>,
    << OrderItem(Uuid(1), 0) >> }

\* validateCreateOrder: a non-empty array of items with a UUID and a positive
\* integer quantity
validateCreateOrder(items) ==
  /\ items # <<>>
  /\ \A i \in DOMAIN items : IsUuid(items[i].productId) /\ items[i].quantity > 0

\* CHECK(stock_quantity >= 0) of the products table
StockCheck(quantity) ==
  quantity >= 0

\* a handler before its request
IdleOrder ==
  [pc |-> "idle", items |-> <<>>, k |-> 0, read |-> 0, created |-> FALSE,
   itemsCreated |-> 0, writes |-> 0, outcome |-> "none"]

\* the handler ends with the outcome
OrderEnds(o, outcome) ==
  [o EXCEPT !.pc = "done", !.outcome = outcome]

\* the body is parsed and validated, the user is found, and the product of
\* the first item is requested
OrderReceive(h, items) ==
  /\ shop # NoShop
  /\ shop.handlers[h].pc = "idle"
  /\ shop' = [shop EXCEPT !.handlers[h] =
        IF validateCreateOrder(items)
        THEN [@ EXCEPT !.pc = "checking", !.items = items, !.k = 1]
        ELSE OrderEnds([@ EXCEPT !.items = items], "validation")]
  /\ UNCHANGED <<catalog, logs, req, pc, validated, queryVector, response, thrown,
                 embedCalls, dbCalls, logPending, run, vz, calc, limiter, chat>>

\* the select of the product of item k resolves: not found, insufficient
\* stock, the next item, or the insert of the order
OrderCheckItem(h) ==
  /\ shop # NoShop
  /\ shop.handlers[h].pc = "checking"
  /\ LET o == shop.handlers[h]
         item == o.items[o.k]
     IN shop' = [shop EXCEPT !.handlers[h] =
           IF item.productId \notin DOMAIN shop.stock THEN OrderEnds(o, "not_found")
           ELSE IF shop.stock[item.productId] < item.quantity THEN OrderEnds(o, "insufficient")
           ELSE IF o.k < Len(o.items) THEN [o EXCEPT !.k = @ + 1]
           ELSE [o EXCEPT !.pc = "insertOrder"]]
  /\ UNCHANGED <<catalog, logs, req, pc, validated, queryVector, response, thrown,
                 embedCalls, dbCalls, logPending, run, vz, calc, limiter, chat>>

\* the insert of the order resolves: the order exists
OrderInsert(h) ==
  /\ shop # NoShop
  /\ shop.handlers[h].pc = "insertOrder"
  /\ shop' = [shop EXCEPT !.handlers[h] =
        [@ EXCEPT !.pc = "insertItem", !.created = TRUE, !.k = 1]]
  /\ UNCHANGED <<catalog, logs, req, pc, validated, queryVector, response, thrown,
                 embedCalls, dbCalls, logPending, run, vz, calc, limiter, chat>>

\* the insert of order item k resolves: the stock of its product is requested
OrderInsertItem(h) ==
  /\ shop # NoShop
  /\ shop.handlers[h].pc = "insertItem"
  /\ shop' = [shop EXCEPT !.handlers[h] =
        [@ EXCEPT !.pc = "readStock", !.itemsCreated = @ + 1]]
  /\ UNCHANGED <<catalog, logs, req, pc, validated, queryVector, response, thrown,
                 embedCalls, dbCalls, logPending, run, vz, calc, limiter, chat>>

\* the select inside set({ stockQuantity: ... }) resolves: the update is sent
\* with the quantity read minus the quantity ordered
OrderReadStock(h) ==
  /\ shop # NoShop
  /\ shop.handlers[h].pc = "readStock"
  /\ LET o == shop.handlers[h]
     IN shop' = [shop EXCEPT !.handlers[h] =
           [o EXCEPT !.pc = "writeStock", !.read = shop.stock[o.items[o.k].productId]]]
  /\ UNCHANGED <<catalog, logs, req, pc, validated, queryVector, response, thrown,
                 embedCalls, dbCalls, logPending, run, vz, calc, limiter, chat>>

\* the update resolves, or the CHECK constraint refuses it and the handler
\* ends with the error; after the last item the order is answered
OrderWriteStock(h) ==
  /\ shop # NoShop
  /\ shop.handlers[h].pc = "writeStock"
  /\ LET o == shop.handlers[h]
         item == o.items[o.k]
         quantity == o.read - item.quantity
     IN IF ~StockCheck(quantity)
        THEN shop' = [shop EXCEPT !.handlers[h] = OrderEnds(o, "constraint")]
        ELSE shop' = [shop EXCEPT
                !.stock[item.productId] = quantity,
                !.handlers[h] =
                   IF o.k < Len(o.items)
                   THEN [o EXCEPT !.pc = "insertItem", !.k = @ + 1, !.writes = @ + 1]
                   ELSE OrderEnds([o EXCEPT !.writes = @ + 1], "created")]
  /\ UNCHANGED <<catalog, logs, req, pc, validated, queryVector, response, thrown,
                 embedCalls, dbCalls, logPending, run, vz, calc, limiter, chat>>

InitOrders ==
  /\ InitHandler
  /\ catalog = SeedCatalog
  /\ run = NoRun
  /\ vz = NoVectorize
  /\ calc = NoCalc
  /\ limiter = NoLimiter
  /\ chat = NoChat
  /\ shop = [stock |-> [p \in ShopProducts |-> InitialStock],
             handlers |-> [h \in 1..NumOrderRequests |-> IdleOrder]]

NextOrders ==
  \/ \E h \in 1..NumOrderRequests, items \in OrderBodies : OrderReceive(h, items)
  \/ \E h \in 1..NumOrderRequests : OrderCheckItem(h)
  \/ \E h \in 1..NumOrderRequests : OrderInsert(h)
  \/ \E h \in 1..NumOrderRequests : OrderInsertItem(h)
  \/ \E h \in 1..NumOrderRequests : OrderReadStock(h)
  \/ \E h \in 1..NumOrderRequests : OrderWriteStock(h)

OrdersSpec ==
  InitOrders /\ [][NextOrders]_vars

\* the quantity of the product in the items
RECURSIVE QuantityOrdered(_, _)
QuantityOrdered(items, p) ==
  IF items = <<>> THEN 0
  ELSE (IF Head(items).productId = p THEN Head(items).quantity ELSE 0)
       + QuantityOrdered(Tail(items), p)

\* the quantity of the product in the orders created by handlers 1..n
RECURSIVE QuantityInOrders(_, _)
QuantityInOrders(n, p) ==
  IF n = 0 THEN 0
  ELSE (IF shop.handlers[n].created THEN QuantityOrdered(shop.handlers[n].items, p) ELSE 0)
       + QuantityInOrders(n - 1, p)

\* C29: no stock is negative; once the requests have ended, the stock of
\* each product is its initial stock less the quantities of the orders
\* created; a request rejected for insufficient stock created no order and
\* wrote no stock.
C29_StockFollowsOrders ==
  shop # NoShop =>
     /\ \A p \in ShopProducts : shop.stock[p] >= 0
     /\ (\A h \in 1..NumOrderRequests : shop.handlers[h].pc \in {"idle", "done"}) =>
           \A p \in ShopProducts :
              shop.stock[p] = InitialStock - QuantityInOrders(NumOrderRequests, p)
     /\ \A h \in 1..NumOrderRequests :
           shop.handlers[h].outcome = "insufficient" =>
              (~shop.handlers[h].created /\ shop.handlers[h].writes = 0)

\* ---------------------------------------------------------------------
\* POST /api/ai/chat (routes/ai/chat) and its reader streamAIChat
\* (frontend lib/api/ai)
\* ---------------------------------------------------------------------

\* the chunks the provider yields at most
MaxChunks ==
  2

\* one SSE message: data: {"type": ..., "content": ...}\n\n
SseEvent(type, content) ==
  [type |-> type, content |-> content]

\* the texts chunk.text() gives: text, or nothing
ChunkTexts ==
  { "Hi", "" }

\* the request has not been made
IdleChat ==
  [pc |-> "idle", sent |-> <<>>, wire |-> 0, link |-> "up",
   client |-> "idle", next |-> 0, calls |-> <<>>]

\* stream.write(message): the message is written; it reaches the reader
\* while the connection is up
StreamWrite(ch, event) ==
  [ch EXCEPT !.sent = Append(@, event),
             !.wire = IF ch.link = "up" THEN @ + 1 ELSE @]

\* the switch without its return statements
ClientHandle_NoReturn(calls, event) ==
  IF event.type = "chunk"
  THEN [calls |-> IF event.content # "" THEN Append(calls, "onChunk") ELSE calls,
        returned |-> FALSE]
  ELSE IF event.type = "done" THEN [calls |-> Append(calls, "onComplete"), returned |-> FALSE]
  ELSE IF event.type = "error" THEN [calls |-> Append(calls, "onError"), returned |-> FALSE]
  ELSE [calls |-> calls, returned |-> FALSE]

\* switch (data.type): the callbacks called so far and whether the function
\* returned
ClientHandle(calls, event) ==
  IF event.type = "chunk"
  THEN [calls |-> IF event.content # "" THEN Append(calls, "onChunk") ELSE calls,
        returned |-> FALSE]
  ELSE IF event.type = "done" THEN [calls |-> Append(calls, "onComplete"), returned |-> TRUE]
  ELSE IF event.type = "error" THEN [calls |-> Append(calls, "onError"), returned |-> TRUE]
  ELSE [calls |-> calls, returned |-> FALSE]

\* for (const line of lines): the messages i..n of the stream in order, until
\* the function returns
RECURSIVE ClientLines(_, _, _, _)
ClientLines(calls, events, i, n) ==
  IF i > n THEN [calls |-> calls, returned |-> FALSE, next |-> n]
  ELSE LET handled == ClientHandle(calls, events[i])
       IN IF handled.returned THEN [calls |-> handled.calls, returned |-> TRUE, next |-> i]
          ELSE ClientLines(handled.calls, events, i + 1, n)

\* the client calls fetch and the request reaches the route: the middleware
\* or the schema refuses it, or the stream starts with the connected message
ChatReceive(ok) ==
  /\ chat # NoChat
  /\ chat.pc = "idle"
  /\ chat' = IF ok
             THEN StreamWrite([chat EXCEPT !.pc = "streaming", !.client = "fetching"],
                              SseEvent("connected", ""))
             ELSE [chat EXCEPT !.pc = "rejected", !.client = "fetching"]
  /\ UNCHANGED <<catalog, logs, req, pc, validated, queryVector, response, thrown,
                 embedCalls, dbCalls, logPending, run, vz, calc, limiter, shop>>

\* generateChatStream yields a chunk: it is written as a chunk message
ChatChunk(text) ==
  /\ chat # NoChat
  /\ chat.pc = "streaming"
  /\ Len(chat.sent) <= MaxChunks
  /\ chat' = StreamWrite(chat, SseEvent("chunk", text))
  /\ UNCHANGED <<catalog, logs, req, pc, validated, queryVector, response, thrown,
                 embedCalls, dbCalls, logPending, run, vz, calc, limiter, shop>>

\* generateChatStream ends: the done message is written, the log insert is
\* dispatched and the callback returns
ChatDone ==
  /\ chat # NoChat
  /\ chat.pc = "streaming"
  /\ chat' = [StreamWrite(chat, SseEvent("done", "")) EXCEPT !.pc = "closed"]
  /\ UNCHANGED <<catalog, logs, req, pc, validated, queryVector, response, thrown,
                 embedCalls, dbCalls, logPending, run, vz, calc, limiter, shop>>

\* generateChatStream throws: the catch block writes the error message
ChatFail ==
  /\ chat # NoChat
  /\ chat.pc = "streaming"
  /\ chat' = [StreamWrite(chat, SseEvent("error", "Failed to generate response"))
                EXCEPT !.pc = "closed"]
  /\ UNCHANGED <<catalog, logs, req, pc, validated, queryVector, response, thrown,
                 embedCalls, dbCalls, logPending, run, vz, calc, limiter, shop>>

\* the connection fails
LinkBreaks ==
  /\ chat # NoChat
  /\ chat.link = "up"
  /\ chat.client \in {"fetching", "reading"}
  /\ chat' = [chat EXCEPT !.link = "broken"]
  /\ UNCHANGED <<catalog, logs, req, pc, validated, queryVector, response, thrown,
                 embedCalls, dbCalls, logPending, run, vz, calc, limiter, shop>>

\* the body is closed on the way to the client while the route still streams
LinkEnds ==
  /\ chat # NoChat
  /\ chat.link = "up"
  /\ chat.pc = "streaming"
  /\ chat' = [chat EXCEPT !.link = "ended"]
  /\ UNCHANGED <<catalog, logs, req, pc, validated, queryVector, response, thrown,
                 embedCalls, dbCalls, logPending, run, vz, calc, limiter, shop>>

\* fetch settles: it rejects or the response is not ok (onError from the
\* catch block), or the reader is taken
ClientResponse ==
  /\ chat # NoChat
  /\ chat.client = "fetching"
  /\ chat' = IF chat.link = "broken" \/ chat.pc = "rejected"
             THEN [chat EXCEPT !.client = "returned", !.calls = Append(@, "onError")]
             ELSE [chat EXCEPT !.client = "reading"]
  /\ UNCHANGED <<catalog, logs, req, pc, validated, queryVector, response, thrown,
                 embedCalls, dbCalls, logPending, run, vz, calc, limiter, shop>>

\* reader.read() resolves with data that completes the messages up to n
ClientRead(n) ==
  /\ chat # NoChat
  /\ chat.client = "reading"
  /\ n > chat.next /\ n <= chat.wire
  /\ LET lines == ClientLines(chat.calls, chat.sent, chat.next + 1, n)
     IN chat' = [chat EXCEPT !.calls = lines.calls, !.next = lines.next,
                             !.client = IF lines.returned THEN "returned" ELSE @]
  /\ UNCHANGED <<catalog, logs, req, pc, validated, queryVector, response, thrown,
                 embedCalls, dbCalls, logPending, run, vz, calc, limiter, shop>>

\* reader.read() rejects: onError from the catch block
ClientReadFails ==
  /\ chat # NoChat
  /\ chat.client = "reading"
  /\ chat.link = "broken"
  /\ chat' = [chat EXCEPT !.client = "returned", !.calls = Append(@, "onError")]
  /\ UNCHANGED <<catalog, logs, req, pc, validated, queryVector, response, thrown,
                 embedCalls, dbCalls, logPending, run, vz, calc, limiter, shop>>

\* reader.read() resolves with done: the loop breaks and onComplete is called
ClientReadEnd ==
  /\ chat # NoChat
  /\ chat.client = "reading"
  /\ chat.next = chat.wire
  /\ chat.link = "ended" \/ (chat.link = "up" /\ chat.pc = "closed")
  /\ chat' = [chat EXCEPT !.client = "returned", !.calls = Append(@, "onComplete")]
  /\ UNCHANGED <<catalog, logs, req, pc, validated, queryVector, response, thrown,
                 embedCalls, dbCalls, logPending, run, vz, calc, limiter, shop>>

InitChat ==
  /\ InitHandler
  /\ catalog = SeedCatalog
  /\ run = NoRun
  /\ vz = NoVectorize
  /\ calc = NoCalc
  /\ limiter = NoLimiter
  /\ shop = NoShop
  /\ chat = IdleChat

NextChat ==
  \/ \E ok \in BOOLEAN : ChatReceive(ok)
  \/ \E text \in ChunkTexts : ChatChunk(text)
  \/ ChatDone
  \/ ChatFail
  \/ LinkBreaks
  \/ LinkEnds
  \/ ClientResponse
  \/ \E n \in 1..(MaxChunks + 2) : ClientRead(n)
  \/ ClientReadFails
  \/ ClientReadEnd

ChatSpec ==
  InitChat /\ [][NextChat]_vars

\* done or error
IsTerminalEvent(event) ==
  event.type \in {"done", "error"}

\* onComplete or onError
IsTerminalCall(call) ==
  call \in {"onComplete", "onError"}

\* C30: the stream is 'connected', then chunks, then exactly one 'done' or
\* 'error' once the route has finished, and nothing after it; the client calls
\* exactly one of onComplete and onError, once, after every onChunk.
C30_OneTerminalEventAndCallback ==
  chat # NoChat =>
     /\ \A i \in DOMAIN chat.sent :
          /\ (i = 1) <=> (chat.sent[i].type = "connected")
          /\ i > 1 => chat.sent[i].type \in {"chunk", "done", "error"}
          /\ IsTerminalEvent(chat.sent[i]) => (i = Len(chat.sent) /\ chat.pc = "closed")
     /\ chat.pc = "closed" => IsTerminalEvent(chat.sent[Len(chat.sent)])
     /\ \A i \in DOMAIN chat.calls :
          IsTerminalCall(chat.calls[i]) => (i = Len(chat.calls) /\ chat.client = "returned")
     /\ chat.client = "returned" => IsTerminalCall(chat.calls[Len(chat.calls)])

\* the client got two chunks and then the done message
C30_Witness ==
  /\ chat # NoChat
  /\ chat.pc = "closed" /\ chat.client = "returned"
  /\ chat.calls = <<"onChunk", "onChunk", "onComplete">>
  /\ chat.sent[Len(chat.sent)].type = "done"

====
